---- MODULE Spec2Model ----
(***************************************************************************)
(* A model of venn-helper, the TypeScript port of venn.js: the layout      *)
(* pipeline of layout.ts (src/unnamed/part_002) and the vennSolution       *)
(* driver of diagram.ts (src/unnamed/part_003).                            *)
(*                                                                         *)
(* Numbers.  In the layout phase JavaScript doubles are modelled by        *)
(* integers.  Areas are measured in units of pi, so a set of size n*pi has *)
(* radius sqrt(n); the sizes used are perfect squares, which keeps every   *)
(* radius an integer.  In normalizeSolution and scaleSolution they are     *)
(* modelled by exact rationals <<numerator, denominator>>.                 *)
(* Set ids are strings, and the keys the code builds from them with        *)
(* template strings are built here by string concatenation.                *)
(***************************************************************************)
EXTENDS Integers, Sequences, FiniteSets, TLC

VARIABLES
    pc,         \* position of the call being modelled
    areas,      \* the caller's Area list
    completed,  \* the list returned by addMissingAreas
    circles,    \* a CircleRecord during layout: its Circles in key order
    lossOut,    \* the number returned by lossFunction
    heap,       \* the Circle objects
    call,       \* the call in progress or last made: function, arguments, heap at entry
    result      \* what the last call returned

vars == <<pc, areas, completed, circles, lossOut, heap, call, result>>

\* The state of the variables a specification does not use.
NoCall == [fn |-> "none"]

NoResult == [status |-> "none"]

-----------------------------------------------------------------------------
(* Bounds *)

MaxAreas == 4

MaxOverlaps == 2

-----------------------------------------------------------------------------
(* Generic helpers *)

Range(s) == {s[i] : i \in DOMAIN s}

Min(a, b) == IF a <= b THEN a ELSE b

Max(a, b) == IF a >= b THEN a ELSE b

Abs(a) == IF a < 0 THEN -a ELSE a

SeqsUpTo(S, n) == UNION {[1..k -> S] : k \in 0..n}

\* The indices, in order, at which the sequence of booleans keep is TRUE.
SelectIdx(keep) == SelectSeq([i \in DOMAIN keep |-> i], LAMBDA i : keep[i])

RECURSIVE InsertSorted(_, _, _)
\* Array.prototype.sort is stable: index e goes after every index it does not
\* strictly precede.  before[i, j] is "the comparator puts i before j".
InsertSorted(s, e, before) ==
    IF s = <<>> THEN <<e>>
    ELSE IF before[e, Head(s)] THEN <<e>> \o s
    ELSE <<Head(s)>> \o InsertSorted(Tail(s), e, before)

RECURSIVE SortPerm(_, _)
\* The order in which a stable sort leaves the indices 1..n.
SortPerm(n, before) ==
    IF n = 0 THEN <<>> ELSE InsertSorted(SortPerm(n - 1, before), n, before)

\* s sorted (stably) by the comparator: before[i, j] is "s[i] goes before s[j]".
StableSort(s, before) ==
    LET perm == SortPerm(Len(s), before)
    IN  [k \in DOMAIN s |-> s[perm[k]]]

-----------------------------------------------------------------------------
(* Areas *)

\* An Area: sets, size and the optional weight (hasWeight tells whether the
\* caller gave one).
MkArea(sets, size) == [sets |-> sets, size |-> size, hasWeight |-> FALSE, weight |-> 0]

MkWeighted(sets, size, w) == [sets |-> sets, size |-> size, hasWeight |-> TRUE, weight |-> w]

\* String.prototype.localeCompare on the ids the model uses: their rank in
\* collation order.
IdsInLocaleOrder == <<"", "a", "a,b", "b", "b,a", "c", "d">>

LocaleRank(id) == CHOOSE i \in DOMAIN IdsInLocaleOrder : IdsInLocaleOrder[i] = id

LocaleBefore(a, b) == LocaleRank(a) < LocaleRank(b)

\* The key `${a},${b}` of the pairs dictionary.
PairKey(a, b) == a \o "," \o b

\* ids: sets[0] of every single-set Area, in input order.
SingleIds(as) ==
    LET idx == SelectIdx([i \in DOMAIN as |-> Len(as[i].sets) = 1])
    IN  [k \in DOMAIN idx |-> as[idx[k]].sets[1]]

\* pairs: both keys of every 2-way Area.
PairKeys(as) ==
    UNION {{PairKey(as[i].sets[1], as[i].sets[2]), PairKey(as[i].sets[2], as[i].sets[1])} :
              i \in {j \in DOMAIN as : Len(as[j].sets) = 2}}

RECURSIVE MissingFrom(_, _, _, _)
\* The double loop over the sorted ids: for i < j, a zero-size Area when the
\* key of (ids[i], ids[j]) is not in pairs.
MissingFrom(ids, keys, i, j) ==
    IF i > Len(ids) THEN <<>>
    ELSE IF j > Len(ids) THEN MissingFrom(ids, keys, i + 1, i + 2)
    ELSE (IF PairKey(ids[i], ids[j]) \in keys THEN <<>>
          ELSE <<MkArea(<<ids[i], ids[j]>>, 0)>>)
         \o MissingFrom(ids, keys, i, j + 1)

AddMissingAreas(as) ==
    LET unsorted == SingleIds(as)
        ids == StableSort(unsorted, [i \in DOMAIN unsorted, j \in DOMAIN unsorted |->
                                       LocaleBefore(unsorted[i], unsorted[j])])
    IN  as \o MissingFrom(ids, PairKeys(as), 1, 2)

-----------------------------------------------------------------------------
(* Circles and the geometry of circle-intersection.ts *)

\* A Circle of a layout.  radius is sqrt(size / pi): with sizes in units of
\* pi, the integer square root.
MkCircle(setid, x, y, radius, size, rowid) ==
    [setid |-> setid, x |-> x, y |-> y, radius |-> radius, size |-> size, rowid |-> rowid]

RECURSIVE ISqrtIn(_, _, _)
ISqrtIn(n, lo, hi) ==
    IF lo >= hi THEN lo
    ELSE LET mid == (lo + hi + 1) \div 2
         IN  IF mid * mid <= n THEN ISqrtIn(n, mid, hi) ELSE ISqrtIn(n, lo, mid - 1)

\* The largest r with r * r <= n (Math.sqrt on the perfect squares used).
ISqrt(n) == ISqrtIn(n, 0, Min(n, 46340))

\* sets[id]: the place of key id in a CircleRecord, 0 when the key is absent
\* (undefined).
Lookup(rec, id) ==
    IF \E i \in DOMAIN rec : rec[i].setid = id
    THEN CHOOSE i \in DOMAIN rec : rec[i].setid = id
    ELSE 0

\* distance(a, b), squared.
Distance2(a, b) == (a.x - b.x) * (a.x - b.x) + (a.y - b.y) * (a.y - b.y)

\* circleOverlap(r1, r2, d), with the distance given squared (d2) and the
\* area in units of pi: 0 when the circles are apart, the smaller circle when
\* one is inside the other, and in between a lens that shrinks as d grows
\* (the two-segment formula, here by interpolation in d^2 on the integers).
CircleOverlap(r1, r2, d2) ==
    IF d2 >= (r1 + r2) * (r1 + r2) THEN 0
    ELSE IF d2 <= (r1 - r2) * (r1 - r2) THEN Min(r1, r2) * Min(r1, r2)
    ELSE (Min(r1, r2) * Min(r1, r2) * ((r1 + r2) * (r1 + r2) - d2)) \div (4 * r1 * r2)

\* intersectionArea(circles).overlap for the Circles at the places idx of
\* rec: 0 when two of them are apart, the area of a Circle that lies inside
\* all the others, and otherwise bounded by the smallest pairwise lens.
IntersectionOverlap(rec, idx) ==
    LET pairs == {p \in (DOMAIN idx) \X (DOMAIN idx) : p[1] < p[2]}
        lens(p) == CircleOverlap(rec[idx[p[1]]].radius, rec[idx[p[2]]].radius,
                                 Distance2(rec[idx[p[1]]], rec[idx[p[2]]]))
    IN  IF pairs = {} THEN 0
        ELSE CHOOSE v \in {lens(p) : p \in pairs} : \A q \in pairs : v <= lens(q)

-----------------------------------------------------------------------------
(* Rational numbers: the coordinates of the stages after layout *)

RECURSIVE Gcd(_, _)
Gcd(a, b) == IF b = 0 THEN a ELSE Gcd(b, a % b)

\* The rational n / d in lowest terms with a positive denominator.
Rat(n, d) ==
    LET g == Gcd(Abs(n), Abs(d))
        sgn == IF d < 0 THEN -1 ELSE 1
    IN  <<sgn * (n \div g), sgn * (d \div g)>>

RInt(n) == <<n, 1>>

RAdd(p, q) == Rat(p[1] * q[2] + q[1] * p[2], p[2] * q[2])

RSub(p, q) == Rat(p[1] * q[2] - q[1] * p[2], p[2] * q[2])

RMul(p, q) == Rat(p[1] * q[1], p[2] * q[2])

\* p / q, for q # 0.
RDiv(p, q) == Rat(p[1] * q[2], p[2] * q[1])

RNeg(p) == <<-p[1], p[2]>>

RLt(p, q) == p[1] * q[2] < q[1] * p[2]

RLe(p, q) == p[1] * q[2] <= q[1] * p[2]

RMin(p, q) == IF RLe(p, q) THEN p ELSE q

RMax(p, q) == IF RLe(q, p) THEN p ELSE q

RAbs(p) == <<Abs(p[1]), p[2]>>

RZero == <<0, 1>>

RECURSIVE RMaxOf(_)
\* Math.max over a non-empty sequence.
RMaxOf(s) == IF Len(s) = 1 THEN s[1] ELSE RMax(s[1], RMaxOf(Tail(s)))

RECURSIVE RMinOf(_)
RMinOf(s) == IF Len(s) = 1 THEN s[1] ELSE RMin(s[1], RMinOf(Tail(s)))

\* Math.sqrt of a rational: exact when it is rational, else to the nearest
\* SqrtGrid-th below.
SqrtGrid == 100

RSqrt(p) ==
    LET m == p[1] * p[2]
        r == ISqrt(m)
    IN  IF r * r = m THEN Rat(r, p[2])
        ELSE Rat(ISqrt(m * SqrtGrid * SqrtGrid), p[2] * SqrtGrid)

-----------------------------------------------------------------------------
(* Circle objects.  The stages after layout work on objects: a heap is a     *)
(* sequence of Circles, an object's identity is its place in it, and a      *)
(* CircleRecord is the sequence of its (key, object) entries in key order.  *)
(* x, y and radius are rationals; parent = 0 is "no parent field".          *)

MkObject(setid, x, y, radius, size, rowid) ==
    [setid |-> setid, x |-> x, y |-> y, radius |-> radius, size |-> size,
     rowid |-> rowid, parent |-> 0]

MkEntry(key, ref) == [key |-> key, ref |-> ref]

\* !setid, !id: the empty string is falsy.
Truthy(id) == id # ""

\* distance(a, b) squared, of two objects.
RDistance2(a, b) ==
    RAdd(RMul(RSub(a.x, b.x), RSub(a.x, b.x)), RMul(RSub(a.y, b.y), RSub(a.y, b.y)))

-----------------------------------------------------------------------------
(* disjointCluster *)

RECURSIVE SetParents(_, _, _)
\* circles.map(circle => circle.parent = circle), from place i of the list.
SetParents(H, list, i) ==
    IF i > Len(list) THEN H
    ELSE SetParents([H EXCEPT ![list[i]].parent = list[i]], list, i + 1)

RECURSIVE Find(_, _)
\* find with path compression: <<heap, root>>.
Find(H, o) ==
    IF H[o].parent # o
    THEN LET r == Find(H, H[o].parent)
         IN  <<[r[1] EXCEPT ![o].parent = r[2]], r[2]>>
    ELSE <<H, o>>

\* union(x, y): the root of x gets the root of y as its parent.
Union(H, x, y) ==
    LET xr == Find(H, x)
        yr == Find(xr[1], y)
    IN  [yr[1] EXCEPT ![xr[2]].parent = yr[2]]

\* distance(c1, c2) + 1e-10 < c1.radius + c2.radius
Overlapping(c1, c2) ==
    LET maxDistance == RAdd(c1.radius, c2.radius)
    IN  RLt(RZero, maxDistance) /\ RLt(RDistance2(c1, c2), RMul(maxDistance, maxDistance))

RECURSIVE UnionScan(_, _, _, _)
\* The pairwise scan: for i < j, union(circles[j], circles[i]) when they overlap.
UnionScan(H, list, i, j) ==
    IF i > Len(list) THEN H
    ELSE IF j > Len(list) THEN UnionScan(H, list, i + 1, i + 2)
    ELSE UnionScan(IF Overlapping(H[list[i]], H[list[j]])
                   THEN Union(H, list[j], list[i]) ELSE H,
                   list, i, j + 1)

\* disjointClusters[setid].push(circle), creating the cluster when the key is new.
PushCluster(groups, setid, ref) ==
    IF \E k \in DOMAIN groups : groups[k].key = setid
    THEN [k \in DOMAIN groups |->
            IF groups[k].key = setid
            THEN [groups[k] EXCEPT !.members = Append(@, ref)]
            ELSE groups[k]]
    ELSE Append(groups, [key |-> setid, members |-> <<ref>>])

RECURSIVE GroupFrom(_, _, _, _)
\* The grouping loop: <<heap, groups>>.  A circle whose root has a falsy
\* setid is skipped.
GroupFrom(H, list, i, groups) ==
    IF i > Len(list) THEN <<H, groups>>
    ELSE LET r == Find(H, list[i])
             setid == r[1][r[2]].setid
         IN  IF ~Truthy(setid) THEN GroupFrom(r[1], list, i + 1, groups)
             ELSE GroupFrom(r[1], list, i + 1, PushCluster(groups, setid, list[i]))

RECURSIVE ClearParentsOfGrouped(_, _, _)
\* A cleanup that walks the clusters instead of the input: a circle the
\* grouping loop skipped keeps its parent.
ClearParentsOfGrouped(H, list, i) ==
    IF i > Len(list) THEN H
    ELSE ClearParentsOfGrouped(IF Truthy(H[list[i]].setid)
                               THEN [H EXCEPT ![list[i]].parent = 0] ELSE H,
                               list, i + 1)

RECURSIVE ClearParents(_, _, _)
\* circles.map(circle => delete circle.parent)
ClearParents(H, list, i) ==
    IF i > Len(list) THEN H
    ELSE ClearParents([H EXCEPT ![list[i]].parent = 0], list, i + 1)

\* The clusters in the form disjointCluster returns them.
ClustersOf(groups) == [k \in DOMAIN groups |-> groups[k].members]

\* The end of disjointCluster, from the <<heap, groups>> of the grouping loop:
\* the cleanup and the return.
ReturnClusters(g, list) ==
    [heap |-> ClearParents(g[1], list, 1), clusters |-> ClustersOf(g[2])]

\* disjointCluster(circles): the heap it leaves and the clusters it returns.
DisjointCluster(H, list) ==
    ReturnClusters(GroupFrom(UnionScan(SetParents(H, list, 1), list, 1, 2), list, 1, <<>>),
                   list)

-----------------------------------------------------------------------------
(* orientateCircles *)

\* cos and sin of `orientation ?? 0`, for the orientations the model draws:
\* undefined, null and whole quarter turns.
CosOf(orientation) ==
    CASE orientation = "pi/2" -> 0
      [] orientation = "pi" -> -1
      [] orientation = "3pi/2" -> 0
      [] OTHER -> 1

SinOf(orientation) ==
    CASE orientation = "pi/2" -> 1
      [] orientation = "pi" -> 0
      [] orientation = "3pi/2" -> -1
      [] OTHER -> 0

\* The comparator's verdict "a sorts before b" for circles.sort(...): by
\* radius descending when orientationOrder === null; Array.prototype.sort's
\* default order (by string value, equal for all objects) when it is
\* undefined; else the caller's comparator.
OrderBefore(order, a, b) ==
    CASE order = "null" -> RLt(b.radius, a.radius)
      [] order = "radiusDescending" -> RLt(b.radius, a.radius)
      [] order = "radiusAscending" -> RLt(a.radius, b.radius)
      [] OTHER -> FALSE

SortCluster(H, cluster, order) ==
    StableSort(cluster, [i \in DOMAIN cluster, j \in DOMAIN cluster |->
                           OrderBefore(order, H[cluster[i]], H[cluster[j]])])

RECURSIVE ShiftAll(_, _, _, _, _)
\* circles[i].x += dx; circles[i].y += dy, from place i of the list.
ShiftAll(H, list, i, dx, dy) ==
    IF i > Len(list) THEN H
    ELSE ShiftAll([H EXCEPT ![list[i]].x = RAdd(@, dx), ![list[i]].y = RAdd(@, dy)],
                  list, i + 1, dx, dy)

\* The hack for two circles: a second circle that lies inside the first is
\* moved to its side (the 1e-10 is below the model's resolution).
SubsetHack(H, cluster) ==
    IF Len(cluster) # 2 THEN H
    ELSE LET c1 == H[cluster[1]]
             c2 == H[cluster[2]]
             gap == RAbs(RSub(c2.radius, c1.radius))
         IN  IF RLt(RDistance2(c1, c2), RMul(gap, gap))
             THEN [H EXCEPT ![cluster[2]].x = RSub(RAdd(c1.x, c1.radius), c2.radius)]
             ELSE H

\* <<sin, cos>> of Math.atan2(x, y): the angle of (x, y) from the y axis.
SinCosAtan2(x, y) ==
    LET len == RSqrt(RAdd(RMul(x, x), RMul(y, y)))
    IN  IF len = RZero THEN <<RZero, RInt(1)>>
        ELSE <<RDiv(x, len), RDiv(y, len)>>

RECURSIVE RotateAll(_, _, _, _, _)
\* x, y := c * x - s * y, s * x + c * y for every circle of the list.
RotateAll(H, list, i, c, sn) ==
    IF i > Len(list) THEN H
    ELSE LET x == H[list[i]].x
             y == H[list[i]].y
         IN  RotateAll([H EXCEPT ![list[i]].x = RSub(RMul(c, x), RMul(sn, y)),
                                 ![list[i]].y = RAdd(RMul(sn, x), RMul(c, y))],
                       list, i + 1, c, sn)

\* The rotation by atan2 - orientation, from <<sin, cos>> of the atan2 and
\* the cos and sin of the orientation.
RotateBy(H, cluster, sc, co, so) ==
    RotateAll(H, cluster, 1, RAdd(RMul(sc[2], co), RMul(sc[1], so)),
              RSub(RMul(sc[1], co), RMul(sc[2], so)))

\* The rotation that puts the second circle at `orientation` from the first.
Rotate(H, cluster, orientation) ==
    IF Len(cluster) <= 1 THEN H
    ELSE RotateBy(H, cluster, SinCosAtan2(H[cluster[2]].x, H[cluster[2]].y),
                  RInt(CosOf(orientation)), RInt(SinOf(orientation)))

\* d = (x + slope * y) / (1 + slope * slope)
MirrorD(x, y, slope) ==
    RDiv(RAdd(x, RMul(slope, y)), RAdd(RInt(1), RMul(slope, slope)))

\* x := 2 d - x, y := 2 d slope - y
MirrorAcross(c, d, slope) ==
    [c EXCEPT !.x = RSub(RMul(RInt(2), d), c.x),
              !.y = RSub(RMul(RMul(RInt(2), d), slope), c.y)]

\* One circle reflected.  With x1 = 0 the slope is y1 / 1e-10: the line is
\* the y axis (x := -x) when y1 # 0, and the slope is 0 when y1 = 0 too
\* (y := -y).
Mirrored(c, x1, y1) ==
    IF x1 # RZero THEN MirrorAcross(c, MirrorD(c.x, c.y, RDiv(y1, x1)), RDiv(y1, x1))
    ELSE IF y1 # RZero THEN [c EXCEPT !.x = RNeg(c.x)]
    ELSE [c EXCEPT !.y = RNeg(c.y)]

RECURSIVE MirrorAll(_, _, _, _, _)
\* The reflection across the line through the origin and (x1, y1), the
\* second circle: with slope = y1 / (1e-10 + x1), d = (x + slope * y) /
\* (1 + slope^2), x := 2 d - x, y := 2 d slope - y.
MirrorAll(H, list, i, x1, y1) ==
    IF i > Len(list) THEN H
    ELSE MirrorAll([H EXCEPT ![list[i]] = Mirrored(@, x1, y1)], list, i + 1, x1, y1)

\* angle > Math.PI, for angle = atan2(x, y) - orientation brought into
\* [0, 2 pi): its sine is negative.
PastHalfTurn(x, y, orientation) ==
    LET sc == SinCosAtan2(x, y)
    IN  RLt(RSub(RMul(sc[1], RInt(CosOf(orientation))), RMul(sc[2], RInt(SinOf(orientation)))),
            RZero)

Mirror(H, cluster, orientation) ==
    IF Len(cluster) <= 2 THEN H
    ELSE IF PastHalfTurn(H[cluster[3]].x, H[cluster[3]].y, orientation)
    THEN MirrorAll(H, cluster, 1, H[cluster[2]].x, H[cluster[2]].y)
    ELSE H

\* The shift that puts the first circle at (0, 0).
ShiftToFirst(H, sorted) ==
    IF Len(sorted) > 0
    THEN ShiftAll(H, sorted, 1, RNeg(H[sorted[1]].x), RNeg(H[sorted[1]].y))
    ELSE H

\* orientateCircles after its sort: shift, subset hack, rotation, mirror.
OrientateSorted(H, sorted, orientation) ==
    [heap |-> Mirror(Rotate(SubsetHack(ShiftToFirst(H, sorted), sorted), sorted, orientation),
                     sorted, orientation),
     cluster |-> sorted]

\* orientateCircles(circles, orientation, orientationOrder): the heap it
\* leaves and the order it leaves the array in.
OrientateCircles(H, cluster, orientation, order) ==
    OrientateSorted(H, SortCluster(H, cluster, order), orientation)

-----------------------------------------------------------------------------
(* getBoundingBox, normalizeSolution, scaleSolution *)

\* getBoundingBox of the objects of a non-empty list.
GetBoundingBox(H, list) ==
    [xmax |-> RMaxOf([i \in DOMAIN list |-> RAdd(H[list[i]].x, H[list[i]].radius)]),
     xmin |-> RMinOf([i \in DOMAIN list |-> RSub(H[list[i]].x, H[list[i]].radius)]),
     ymax |-> RMaxOf([i \in DOMAIN list |-> RAdd(H[list[i]].y, H[list[i]].radius)]),
     ymin |-> RMinOf([i \in DOMAIN list |-> RSub(H[list[i]].y, H[list[i]].radius)])]

BoxSize(b) == RMul(RSub(b.xmax, b.xmin), RSub(b.ymax, b.ymin))

\* The copies normalizeSolution takes: { ...previous, setid: setid } for
\* every entry, appended to the heap.
WorkOnCallersCircles(H, solution) ==
    [heap |-> H, list |-> [i \in DOMAIN solution |-> solution[i].ref]]

CopyCircles(H, solution) ==
    [heap |-> H \o [i \in DOMAIN solution |->
                       [H[solution[i].ref] EXCEPT !.setid = solution[i].key]],
     list |-> [i \in DOMAIN solution |-> Len(H) + i]]

\* A cluster with the bounds and the size the loop records on it.
Measured(members, bounds) ==
    [members |-> members, bounds |-> bounds, size |-> BoxSize(bounds)]

RECURSIVE OrientClusters(_, _, _, _, _, _), OrientNext(_, _, _, _, _, _)
\* The loop that orientates every cluster and records its bounds and size:
\* <<heap, clusters>>, a cluster being [members, bounds, size].
OrientClusters(H, clusters, i, orientation, order, done) ==
    IF i > Len(clusters) THEN <<H, done>>
    ELSE OrientNext(OrientateCircles(H, clusters[i], orientation, order),
                    clusters, i, orientation, order, done)

\* The rest of the loop after orientateCircles on cluster i.
OrientNext(o, clusters, i, orientation, order, done) ==
    OrientClusters(o.heap, clusters, i + 1, orientation, order,
                   Append(done, Measured(o.cluster, GetBoundingBox(o.heap, o.cluster))))

\* clusters.sort: 0 when either size is falsy, else b.size - a.size.
ClusterBefore(a, b) ==
    IF a.size = RZero \/ b.size = RZero THEN FALSE ELSE RLt(b.size, a.size)

\* addCluster(cluster, right, bottom) against the bounds so far.
AddCluster(H, cluster, right, bottom, returnBounds, spacing) ==
    IF cluster.size = RZero THEN H
    ELSE LET bounds == cluster.bounds
             half == <<1, 2>>
             xCentreing == RSub(RMul(RSub(bounds.xmax, bounds.xmin), half),
                                RMul(RSub(returnBounds.xmax, returnBounds.xmin), half))
             yCentreing == RSub(RMul(RSub(bounds.ymax, bounds.ymin), half),
                                RMul(RSub(returnBounds.ymax, returnBounds.ymin), half))
             xOffset == IF right
                        THEN RAdd(RSub(returnBounds.xmax, bounds.xmin), spacing)
                        ELSE RAdd(RSub(returnBounds.xmax, bounds.xmax),
                                  IF RLt(xCentreing, RZero) THEN xCentreing ELSE RZero)
             yOffset == IF bottom
                        THEN RAdd(RSub(returnBounds.ymax, bounds.ymin), spacing)
                        ELSE RAdd(RSub(returnBounds.ymax, bounds.ymax),
                                  IF RLt(yCentreing, RZero) THEN yCentreing ELSE RZero)
         IN  ShiftAll(H, cluster.members, 1, xOffset, yOffset)

\* addCluster(clusters[k], right, bottom): nothing for an undefined cluster.
AddClusterAt(H, clusters, k, right, bottom, returnBounds, spacing) ==
    IF k > Len(clusters) THEN H
    ELSE AddCluster(H, clusters[k], right, bottom, returnBounds, spacing)

\* One round of the packing loop: a cluster to the right, one below, one
\* diagonal.
PackRound(H, clusters, index, returnBounds, spacing) ==
    AddClusterAt(AddClusterAt(AddClusterAt(H, clusters, index, TRUE, FALSE,
                                           returnBounds, spacing),
                              clusters, index + 1, FALSE, TRUE, returnBounds, spacing),
                 clusters, index + 2, TRUE, TRUE, returnBounds, spacing)

RECURSIVE PackFrom(_, _, _, _, _, _), PackNext(_, _, _, _, _)
\* The packing loop, the bounds taken again from all the circles after
\* every round.
PackFrom(H, clusters, index, returnBounds, spacing, all) ==
    IF index > Len(clusters) THEN H
    ELSE PackNext(PackRound(H, clusters, index, returnBounds, spacing),
                  clusters, index, spacing, all)

PackNext(H, clusters, index, spacing, all) ==
    PackFrom(H, clusters, index + 3, GetBoundingBox(H, all), spacing, all)

\* clusters.sort(...)
SortClusters(clusters) ==
    StableSort(clusters, [i \in DOMAIN clusters, j \in DOMAIN clusters |->
                            ClusterBefore(clusters[i], clusters[j])])

\* spacing = (returnBounds.xRange.max - returnBounds.xRange.min) / 50
Spacing(returnBounds) == RMul(RSub(returnBounds.xmax, returnBounds.xmin), <<1, 50>>)

\* normalizeSolution from the sorted clusters on: the throw on clusters[0]
\* being undefined, else the packing and the record.
PackSorted(H, clusters, list, solution) ==
    IF clusters = <<>>
    THEN [status |-> "throw", heap |-> H, ret |-> <<>>]
    ELSE [status |-> "ok",
          heap |-> PackFrom(H, clusters, 2, clusters[1].bounds,
                            Spacing(clusters[1].bounds), list),
          ret |-> [i \in DOMAIN solution |-> MkEntry(solution[i].key, list[i])]]

\* normalizeSolution from the orientated clusters <<heap, clusters>> on.
PackClusters(oc, list, solution) ==
    PackSorted(oc[1], SortClusters(oc[2]), list, solution)

\* normalizeSolution from the result of disjointCluster on.
NormalizeClusters(dc, list, solution, orientation, order) ==
    PackClusters(OrientClusters(dc.heap, dc.clusters, 1, orientation, order, <<>>),
                 list, solution)

\* normalizeSolution from its copies on.
NormalizeCopies(copies, solution, orientation, order) ==
    NormalizeClusters(DisjointCluster(copies.heap, copies.list), copies.list, solution,
                      orientation, order)

\* normalizeSolution(solution, orientation, orientationOrder): the heap it
\* leaves, the record it returns and whether it returned ("ok") or threw on
\* clusters[0] being undefined ("throw").
NormalizeSolution(H, solution, orientation, order) ==
    NormalizeCopies(CopyCircles(H, solution), solution,
                    IF orientation = "null" THEN "pi/2" ELSE orientation, order)

\* The places of a record whose key passes `if (!circle || !id) continue`.
ScaledPlaces(solution) == SelectIdx([i \in DOMAIN solution |-> Truthy(solution[i].key)])

\* A scaling that moves the circles and leaves their radii alone.
ScaledKeepingRadius(c, b, scaling, xOffset, yOffset, padding) ==
    [c EXCEPT !.x = RAdd(RAdd(padding, xOffset), RMul(RSub(c.x, b.xmin), scaling)),
              !.y = RAdd(RAdd(padding, yOffset), RMul(RSub(c.y, b.ymin), scaling))]

\* One circle of the scaled record.
Scaled(c, b, scaling, xOffset, yOffset, padding) ==
    [c EXCEPT !.radius = RMul(scaling, c.radius),
              !.x = RAdd(RAdd(padding, xOffset), RMul(RSub(c.x, b.xmin), scaling)),
              !.y = RAdd(RAdd(padding, yOffset), RMul(RSub(c.y, b.ymin), scaling))]

\* The new record of scaleSolution, of new objects at the kept places.
ScaledRecord(H, solution, kept, b, scaling, xOffset, yOffset, padding) ==
    [heap |-> H \o [k \in DOMAIN kept |->
                      Scaled(H[solution[kept[k]].ref], b, scaling, xOffset, yOffset, padding)],
     ret |-> [k \in DOMAIN kept |-> MkEntry(solution[kept[k]].key, Len(H) + k)],
     same |-> FALSE]

\* scaleSolution from the scale factor on: the offsets that centre the diagram.
ScaleBy(H, solution, b, width, height, scaling, padding) ==
    ScaledRecord(H, solution, ScaledPlaces(solution), b, scaling,
                 RMul(RSub(width, RMul(RSub(b.xmax, b.xmin), scaling)), <<1, 2>>),
                 RMul(RSub(height, RMul(RSub(b.ymax, b.ymin), scaling)), <<1, 2>>),
                 padding)

\* A scaleSolution without the test for a degenerate bounding box, the
\* division by a zero range taken as a scaling of 0.
ScaleCollapsing(H, solution, b, width, height, padding) ==
    IF b.xmax = b.xmin \/ b.ymax = b.ymin
    THEN ScaleBy(H, solution, b, width, height, RZero, padding)
    ELSE ScaleBy(H, solution, b, width, height,
                 RMin(RDiv(height, RSub(b.ymax, b.ymin)), RDiv(width, RSub(b.xmax, b.xmin))),
                 padding)

\* scaleSolution from the bounding box on.
ScaleWithin(H, solution, b, width, height, padding) ==
    IF b.xmax = b.xmin \/ b.ymax = b.ymin
    THEN [heap |-> H, ret |-> solution, same |-> TRUE]
    ELSE ScaleBy(H, solution, b, width, height,
                 RMin(RDiv(height, RSub(b.ymax, b.ymin)), RDiv(width, RSub(b.xmax, b.xmin))),
                 padding)

\* scaleSolution(solution, width, height, padding): the heap it leaves, the
\* record it returns, and whether that record is the argument itself.  The
\* bounding box of no circle at all runs from Infinity to -Infinity: a new,
\* empty record.
ScaleSolution(H, solution, width0, height0, padding) ==
    IF solution = <<>> THEN [heap |-> H, ret |-> <<>>, same |-> FALSE]
    ELSE ScaleWithin(H, solution,
                     GetBoundingBox(H, [i \in DOMAIN solution |-> solution[i].ref]),
                     RSub(width0, RMul(RInt(2), padding)),
                     RSub(height0, RMul(RInt(2), padding)), padding)

-----------------------------------------------------------------------------
(* lossFunction *)

\* area.weight ? area.weight : 1.0
LossWeight(area) == IF area.hasWeight /\ area.weight # 0 THEN area.weight ELSE 1

\* What one Area adds to the loss of the layout rec.
LossTerm(rec, area) ==
    IF Len(area.sets) = 1 THEN 0
    ELSE IF Len(area.sets) = 2
    THEN LET left == Lookup(rec, area.sets[1])
             right == Lookup(rec, area.sets[2])
         IN  IF left = 0 \/ right = 0 THEN 0
             ELSE LET overlap == CircleOverlap(rec[left].radius, rec[right].radius,
                                               Distance2(rec[left], rec[right]))
                  IN  LossWeight(area) * (overlap - area.size) * (overlap - area.size)
    ELSE LET overlap == IntersectionOverlap(rec, [k \in DOMAIN area.sets |-> Lookup(rec, area.sets[k])])
         IN  LossWeight(area) * (overlap - area.size) * (overlap - area.size)

RECURSIVE LossFrom(_, _, _)
LossFrom(rec, overlaps, i) ==
    IF i > Len(overlaps) THEN 0
    ELSE LossTerm(rec, overlaps[i]) + LossFrom(rec, overlaps, i + 1)

LossFunction(rec, overlaps) == LossFrom(rec, overlaps, 1)

-----------------------------------------------------------------------------
(* distanceFromIntersectArea and greedyLayout.  Lengths and areas are      *)
(* integers here; a call that throws is a result with status "throw".      *)

\* x: 1e10, y: 1e10 of a set not yet positioned, in the model's lengths.
FarAway == 10000

\* bisect(f, 0, r1 + r2) for f(d) = circleOverlap(r1, r2, d) - overlap, where
\* f(0) > 0: fmin throws when f(r1 + r2) > 0 too (-1 here), returns r1 + r2
\* when f(r1 + r2) = 0, and else closes in on the root: the last length at
\* which the lens still has the area.
Bisect(r1, r2, overlap) ==
    IF overlap < 0 THEN -1
    ELSE IF overlap = 0 THEN r1 + r2
    ELSE CHOOSE d \in 0..(r1 + r2) :
            /\ CircleOverlap(r1, r2, d * d) >= overlap
            /\ d < r1 + r2 => CircleOverlap(r1, r2, (d + 1) * (d + 1)) < overlap

\* distanceFromIntersectArea(r1, r2, overlap), -1 when bisect throws.
DistanceFromIntersectArea(r1, r2, overlap) ==
    IF Min(r1, r2) * Min(r1, r2) <= overlap THEN Abs(r1 - r2)
    ELSE Bisect(r1, r2, overlap)

\* circleCircleIntersection(p1, p2) for circles of radius r1 about (x1, y1)
\* and r2 about (x2, y2), from a = (r1^2 - r2^2 + d^2) / 2d and the height
\* h = sqrt(r1^2 - a^2): no point when the circles are apart or nested, else
\* the two crossing points, to the model's resolution.
CrossingPoints(x1, y1, r1, x2, y2, d, a, h) ==
    <<[x |-> x1 + (a * (x2 - x1)) \div d - ((y2 - y1) * h) \div d,
       y |-> y1 + (a * (y2 - y1)) \div d + ((x2 - x1) * h) \div d],
      [x |-> x1 + (a * (x2 - x1)) \div d + ((y2 - y1) * h) \div d,
       y |-> y1 + (a * (y2 - y1)) \div d - ((x2 - x1) * h) \div d]>>

CrossingAt(x1, y1, r1, x2, y2, r2, d2, d) ==
    IF d = 0 \/ d >= r1 + r2 \/ d <= Abs(r1 - r2) THEN <<>>
    ELSE CrossingPoints(x1, y1, r1, x2, y2, d, (r1 * r1 - r2 * r2 + d2) \div (2 * d),
                        ISqrt(Max(0, r1 * r1 - ((r1 * r1 - r2 * r2 + d2) \div (2 * d))
                                               * ((r1 * r1 - r2 * r2 + d2) \div (2 * d)))))

CircleCircleIntersection(x1, y1, r1, x2, y2, r2) ==
    CrossingAt(x1, y1, r1, x2, y2, r2,
               (x1 - x2) * (x1 - x2) + (y1 - y2) * (y1 - y2),
               ISqrt((x1 - x2) * (x1 - x2) + (y1 - y2) * (y1 - y2)))

\* What a layout function hands back: a record, or a throw with its message.
Returned(rec) == [status |-> "ok", error |-> "", circles |-> rec]

Thrown(error) == [status |-> "throw", error |-> error, circles |-> <<>>]

MissingOverlap == "ERROR: missing pairwise overlap information"

BisectSigns == "Initial bisect points must have opposite signs"

SizeOfUndefined == "TypeError: Cannot read properties of undefined (reading 'size')"

\* circles[set] = c: a new key goes last, a key already there keeps its place.
PutCircle(rec, c) ==
    IF Lookup(rec, c.setid) = 0 THEN Append(rec, c)
    ELSE [i \in DOMAIN rec |-> IF rec[i].setid = c.setid THEN c ELSE rec[i]]

RECURSIVE DefineCircles(_, _, _)
\* The first loop of greedyLayout: a Circle at (1e10, 1e10) for every
\* single-set Area.
DefineCircles(as, i, rec) ==
    IF i > Len(as) THEN rec
    ELSE DefineCircles(as, i + 1,
                       IF Len(as[i].sets) = 1
                       THEN PutCircle(rec, MkCircle(as[i].sets[1], FarAway, FarAway,
                                                    ISqrt(as[i].size), as[i].size, Len(rec)))
                       ELSE rec)

\* areas.filter(a => a.sets.length == 2)
TwoSetAreas(as) == SelectSeq(as, LAMBDA a : Len(a.sets) = 2)

\* The weight of an overlap in setOverlaps: 0 for a completely overlapped
\* circle.
OverlapWeight(area, leftCircle, rightCircle) ==
    IF area.size >= Min(leftCircle.size, rightCircle.size) THEN 0 ELSE LossWeight(area)

\* setOverlaps[left].push(...); setOverlaps[right].push(...)
PushOverlaps(lists, rec, l, r, size, weight) ==
    [lists EXCEPT ![l] = Append(@, [set |-> rec[r].setid, size |-> size, weight |-> weight]),
                  ![r] = Append(@, [set |-> rec[l].setid, size |-> size, weight |-> weight])]

RECURSIVE CollectOverlaps(_, _, _, _), OverlapStep(_, _, _, _, _, _)
\* The second loop of greedyLayout, from the 2-way Area i on: the overlap
\* lists of the circles, by place.  circles[left].size is read first: an
\* undefined circle throws there, a zero size skips the Area before
\* circles[right].size is read.
CollectOverlaps(rec, pairs, i, lists) ==
    IF i > Len(pairs) THEN [status |-> "ok", error |-> "", lists |-> lists]
    ELSE OverlapStep(rec, pairs, i, lists,
                     Lookup(rec, pairs[i].sets[1]), Lookup(rec, pairs[i].sets[2]))

OverlapStep(rec, pairs, i, lists, l, r) ==
    IF l = 0 THEN [status |-> "throw", error |-> SizeOfUndefined, lists |-> lists]
    ELSE IF rec[l].size = 0 THEN CollectOverlaps(rec, pairs, i + 1, lists)
    ELSE IF r = 0 THEN [status |-> "throw", error |-> SizeOfUndefined, lists |-> lists]
    ELSE IF rec[r].size = 0 THEN CollectOverlaps(rec, pairs, i + 1, lists)
    ELSE CollectOverlaps(rec, pairs, i + 1,
                         PushOverlaps(lists, rec, l, r, pairs[i].size,
                                      OverlapWeight(pairs[i], rec[l], rec[r])))

RECURSIVE OverlapTotal(_, _)
\* size += overlap.size * overlap.weight over a list from place i.
OverlapTotal(list, i) ==
    IF i > Len(list) THEN 0
    ELSE list[i].size * list[i].weight + OverlapTotal(list, i + 1)

BySizeAscending(s) ==
    StableSort(s, [i \in DOMAIN s, j \in DOMAIN s |-> s[i].size < s[j].size])

\* Sorted by size, largest first: of sets with their totals, and of overlaps.
BySizeDescending(s) ==
    StableSort(s, [i \in DOMAIN s, j \in DOMAIN s |-> s[j].size < s[i].size])

\* mostOverlapped, sorted.
MostOverlapped(rec, lists) ==
    BySizeDescending([k \in DOMAIN rec |->
                        [set |-> rec[k].setid, size |-> OverlapTotal(lists[k], 1)]])

\* positionSet(point, index)
PositionSet(rec, index, x, y) ==
    [k \in DOMAIN rec |->
        IF rec[k].setid = index THEN [rec[k] EXCEPT !.x = x, !.y = y] ELSE rec[k]]

\* The distances d1 for the overlaps of a set with the positioned sets.
OverlapDistances(rec, set, overlap) ==
    [j \in DOMAIN overlap |->
        DistanceFromIntersectArea(set.radius, rec[Lookup(rec, overlap[j].set)].radius,
                                  overlap[j].size)]

\* The four samples at 90 degrees around p1.
AxisPoints(p1, d1) ==
    <<[x |-> p1.x + d1, y |-> p1.y], [x |-> p1.x - d1, y |-> p1.y],
      [x |-> p1.x, y |-> p1.y + d1], [x |-> p1.x, y |-> p1.y - d1]>>

RECURSIVE ExtraPoints(_, _, _, _, _)
\* The analytic points for overlap j with every later overlap k.
ExtraPoints(rec, overlap, ds, j, k) ==
    IF k > Len(overlap) THEN <<>>
    ELSE CircleCircleIntersection(rec[Lookup(rec, overlap[j].set)].x,
                                  rec[Lookup(rec, overlap[j].set)].y, ds[j],
                                  rec[Lookup(rec, overlap[k].set)].x,
                                  rec[Lookup(rec, overlap[k].set)].y, ds[k])
         \o ExtraPoints(rec, overlap, ds, j, k + 1)

RECURSIVE PointsFrom(_, _, _, _)
\* The candidate points, from overlap j on.
PointsFrom(rec, overlap, ds, j) ==
    IF j > Len(overlap) THEN <<>>
    ELSE AxisPoints(rec[Lookup(rec, overlap[j].set)], ds[j])
         \o ExtraPoints(rec, overlap, ds, j, j + 1)
         \o PointsFrom(rec, overlap, ds, j + 1)

\* The first of the points at which the loss is least.
BestOf(points, losses) ==
    points[CHOOSE j \in DOMAIN points :
              /\ \A k \in DOMAIN points : losses[j] <= losses[k]
              /\ \A k \in 1..(j - 1) : losses[k] > losses[j]]

\* The trial of every candidate point, and the best of them.
BestPoint(rec, index, points, pairs) ==
    BestOf(points, [j \in DOMAIN points |->
                      LossFunction(PositionSet(rec, index, points[j].x, points[j].y), pairs)])

\* setOverlaps[setIndex].filter(isPositioned), sorted by size.
PositionedOverlaps(list, positioned) ==
    BySizeDescending(SelectSeq(list, LAMBDA o : o.set \in positioned))

PlaceChosen(rec, index, point) == PositionSet(rec, index, point.x, point.y)

\* The set at the best of its candidate points.
PlaceBest(rec, index, points, pairs) ==
    PlaceChosen(rec, index, BestPoint(rec, index, points, pairs))

RECURSIVE PlaceFrom(_, _, _, _, _, _), PlaceSet(_, _, _, _, _, _, _), PlaceAt(_, _, _, _, _, _, _, _)
\* The positioning loop of greedyLayout, from mostOverlapped[i] on.  A falsy
\* setIndex leaves `overlap` null.
PlaceFrom(rec, lists, most, i, positioned, pairs) ==
    IF i > Len(most) THEN Returned(rec)
    ELSE IF ~Truthy(most[i].set) THEN Thrown(MissingOverlap)
    ELSE PlaceSet(rec, lists, most, i, positioned, pairs,
                  PositionedOverlaps(lists[Lookup(rec, most[i].set)], positioned))

PlaceSet(rec, lists, most, i, positioned, pairs, overlap) ==
    IF overlap = <<>> THEN Thrown(MissingOverlap)
    ELSE PlaceAt(rec, lists, most, i, positioned, pairs, overlap,
                 OverlapDistances(rec, rec[Lookup(rec, most[i].set)], overlap))

PlaceAt(rec, lists, most, i, positioned, pairs, overlap, ds) ==
    IF \E j \in DOMAIN ds : ds[j] < 0 THEN Thrown(BisectSigns)
    ELSE PlaceFrom(PlaceBest(rec, most[i].set, PointsFrom(rec, overlap, ds, 1), pairs),
                   lists, most, i + 1, positioned \cup {most[i].set}, pairs)

\* greedyLayout from mostOverlapped on: the first set at (0, 0), the others
\* in turn.
GreedyOrder(rec, pairs, lists, most) ==
    PlaceFrom(PositionSet(rec, most[1].set, 0, 0), lists, most, 2, {most[1].set}, pairs)

\* greedyLayout from the overlap lists on.  With no circle at all,
\* positionSet marks "" and the loop does not run.
GreedyPlace(rec, pairs, ov) ==
    IF ov.status # "ok" THEN Thrown(ov.error)
    ELSE IF rec = <<>> THEN Returned(rec)
    ELSE GreedyOrder(rec, pairs, ov.lists, MostOverlapped(rec, ov.lists))

\* greedyLayout from its circles on.
GreedyFrom(rec, pairs) ==
    GreedyPlace(rec, pairs, CollectOverlaps(rec, pairs, 1, [k \in DOMAIN rec |-> <<>>]))

\* greedyLayout(areas)
GreedyLayout(as) == GreedyFrom(DefineCircles(as, 1, <<>>), TwoSetAreas(as))

-----------------------------------------------------------------------------
(* constrainedMDSLayout, bestInitialLayout and venn.  conjugateGradient and *)
(* nelderMead are fmin's: the positions they hand back are inputs of the    *)
(* model, drawn from a few shapes.                                          *)

\* sets: the single-set Areas, in input order.
SingleSetAreas(as) == SelectSeq(as, LAMBDA a : Len(a.sets) = 1)

\* setids[id]: the row of the last single-set Area of a truthy id, 0 when
\* undefined.
RowOf(sets, id) ==
    IF Truthy(id) /\ \E i \in DOMAIN sets : sets[i].sets[1] = id
    THEN CHOOSE i \in DOMAIN sets :
            /\ sets[i].sets[1] = id
            /\ \A j \in DOMAIN sets : sets[j].sets[1] = id => j <= i
    ELSE 0

\* The distances getDistanceMatrices asks for, one for every 2-way Area: 0
\* for an Area it skips (a set without a row), -1 where bisect throws.
PairDistance(sets, l, r, size) ==
    IF l = 0 \/ r = 0 THEN 0
    ELSE DistanceFromIntersectArea(ISqrt(sets[l].size), ISqrt(sets[r].size), size)

PairDistances(pairs, sets) ==
    [i \in DOMAIN pairs |->
        PairDistance(sets, RowOf(sets, pairs[i].sets[1]), RowOf(sets, pairs[i].sets[2]),
                     pairs[i].size)]

\* The distance matrix is all zero: its norm is 0, the division by it gives
\* NaN.  (A cell holds the distance of the last Area written to it.)
NormIsZero(pairs, sets, ds) ==
    \A i \in DOMAIN pairs :
        \/ ds[i] = 0
        \/ \E j \in (i + 1)..Len(pairs) :
              {RowOf(sets, pairs[j].sets[1]), RowOf(sets, pairs[j].sets[2])}
                = {RowOf(sets, pairs[i].sets[1]), RowOf(sets, pairs[i].sets[2])}
              /\ 0 \notin {RowOf(sets, pairs[j].sets[1]), RowOf(sets, pairs[j].sets[2])}

\* The shapes conjugateGradient's best positions are drawn from: the rows
\* (sets) on a line or on a square grid, a step apart.
MdsShapes == {[kind |-> k, step |-> s] : k \in {"line", "grid"}, s \in {3, 6, 8}}

MdsX(shape, row) == IF shape.kind = "line" THEN (row - 1) * shape.step
                    ELSE ((row - 1) % 2) * shape.step

MdsY(shape, row) == IF shape.kind = "line" THEN 0 ELSE ((row - 1) \div 2) * shape.step

RECURSIVE MdsCircles(_, _, _, _, _)
\* The last loop of constrainedMDSLayout: a Circle for every row, at
\* positions * norm.
MdsCircles(sets, i, rec, shape, still) ==
    IF i > Len(sets) THEN rec
    ELSE MdsCircles(sets, i + 1,
                    PutCircle(rec, MkCircle(sets[i].sets[1],
                                            IF still THEN 0 ELSE MdsX(shape, i),
                                            IF still THEN 0 ELSE MdsY(shape, i),
                                            ISqrt(sets[i].size), sets[i].size, Len(rec))),
                    shape, still)

\* constrainedMDSLayout from the distances on.  With a norm of 0 every
\* finite position * norm is 0.
MdsFrom(pairs, sets, ds, shape) ==
    IF \E i \in DOMAIN ds : ds[i] < 0 THEN Thrown(BisectSigns)
    ELSE Returned(MdsCircles(sets, 1, <<>>, shape, NormIsZero(pairs, sets, ds)))

MdsOf(pairs, sets, shape) == MdsFrom(pairs, sets, PairDistances(pairs, sets), shape)

\* constrainedMDSLayout(areas, params), for the positions of `shape`.
ConstrainedMDSLayout(as, shape) == MdsOf(TwoSetAreas(as), SingleSetAreas(as), shape)

\* The positions of conjugateGradient are finite: the norm is not 0, or
\* there is at most one row.
MdsDefined(as) ==
    \/ Len(SingleSetAreas(as)) <= 1
    \/ \E i \in DOMAIN PairDistances(TwoSetAreas(as), SingleSetAreas(as)) :
          PairDistances(TwoSetAreas(as), SingleSetAreas(as))[i] < 0
    \/ ~NormIsZero(TwoSetAreas(as), SingleSetAreas(as),
                   PairDistances(TwoSetAreas(as), SingleSetAreas(as)))

\* areas.length >= 8
MdsThreshold == 8

\* The 1e-8 of `constrainedLoss + 1e-8 < greedyLoss`: one unit of loss.
BestEpsilon == 1

MdsTriedOnSets(as) == Len(SingleSetAreas(as)) >= MdsThreshold

MdsTried(as) == Len(as) >= MdsThreshold

AnyLower(constrainedLoss, greedyLoss) == constrainedLoss < greedyLoss

\* constrainedLoss + 1e-8 < greedyLoss
Outperforms(constrainedLoss, greedyLoss) == constrainedLoss + BestEpsilon < greedyLoss

\* bestInitialLayout once both layouts are there.
BestOfTwo(as, initial, constrained) ==
    IF constrained.status = "throw" THEN constrained
    ELSE IF Outperforms(LossFunction(constrained.circles, as),
                        LossFunction(initial.circles, as))
    THEN constrained
    ELSE initial

\* bestInitialLayout from the greedy layout on.
BestFrom(as, initial, shape) ==
    IF initial.status = "throw" THEN initial
    ELSE IF MdsTried(as) THEN BestOfTwo(as, initial, ConstrainedMDSLayout(as, shape))
    ELSE initial

\* bestInitialLayout(areas, params)
BestInitialLayout(as, shape) == BestFrom(as, GreedyLayout(as), shape)

\* layoutFunctionMap.get(parameters.layout ?? "best")
InitialLayout(as, layout, shape) ==
    CASE layout = "greedy" -> GreedyLayout(as)
      [] layout = "MDS" -> ConstrainedMDSLayout(as, shape)
      [] OTHER -> BestInitialLayout(as, shape)

\* What nelderMead's solution is drawn from: the initial layout itself, or
\* its mirror image in the diagonal (the same loss).
Refinements == {"stay", "transpose"}

NelderMead(rec, nm) ==
    IF nm = "transpose"
    THEN [k \in DOMAIN rec |-> [rec[k] EXCEPT !.x = rec[k].y, !.y = rec[k].x]]
    ELSE rec

\* venn from the initial layout on.
Refine(initial, nm) ==
    IF initial.status = "throw" THEN initial
    ELSE Returned(NelderMead(initial.circles, nm))

\* venn(areas, parameters): the record it returns, or its throw.
Venn(as, layout, shape, nm) ==
    Refine(InitialLayout(AddMissingAreas(as), layout, shape), nm)

-----------------------------------------------------------------------------
(* Specification of addMissingAreas on its own *)

MissingIds == {"a", "a,b", "b,a"}

MissingPool ==
    {MkArea(<<i>>, 4) : i \in MissingIds}
    \cup {MkArea(<<p[1], p[2]>>, s) : p \in {q \in MissingIds \X MissingIds : q[1] # q[2]}, s \in {0, 1}}

\* Each set is declared by one single-set Area.
DistinctSingles(as) ==
    \A i, j \in DOMAIN as :
        (i # j /\ Len(as[i].sets) = 1 /\ Len(as[j].sets) = 1) => as[i].sets # as[j].sets

\* Every set an Area names is declared by a single-set Area.
OnlyDeclared(as) ==
    \A i \in DOMAIN as :
        \A k \in DOMAIN as[i].sets :
            \E j \in DOMAIN as : as[j].sets = <<as[i].sets[k]>>

InitMissing ==
    /\ pc = "start"
    /\ areas \in {as \in SeqsUpTo(MissingPool, MaxAreas) :
                     DistinctSingles(as) /\ OnlyDeclared(as)}
    /\ completed = <<>>
    /\ circles = <<>>
    /\ lossOut = 0
    /\ heap = <<>>
    /\ call = NoCall
    /\ result = NoResult

CallAddMissingAreas ==
    /\ pc = "start"
    /\ completed' = AddMissingAreas(areas)
    /\ pc' = "done"
    /\ UNCHANGED <<areas, circles, lossOut, heap, call, result>>

NextMissing == CallAddMissingAreas

SpecMissing == InitMissing /\ [][NextMissing]_vars

\* The ids of the single-set Areas of a list.
DeclaredIds(as) == {as[i].sets[1] : i \in {j \in DOMAIN as : Len(as[j].sets) = 1}}

\* The places of a list that hold a 2-way Area of the sets a and b, in either order.
PairPlaces(as, a, b) ==
    {i \in DOMAIN as : as[i].sets \in {<<a, b>>, <<b, a>>}}

\* C1: once addMissingAreas has returned, every two declared ids with no
\* explicit 2-way Area have exactly one zero-size Area in the completed list,
\* a pair with an explicit 2-way Area gets none added, and the caller's Areas
\* are all kept (they are the head of the completed list).
C1_MissingPairsCompleted ==
    pc = "done" =>
        /\ Len(completed) >= Len(areas)
        /\ SubSeq(completed, 1, Len(areas)) = areas
        /\ \A a, b \in DeclaredIds(areas) :
              a # b =>
                IF PairPlaces(areas, a, b) = {}
                THEN /\ Cardinality(PairPlaces(completed, a, b)) = 1
                     /\ \A i \in PairPlaces(completed, a, b) : completed[i].size = 0
                ELSE PairPlaces(completed, a, b) = PairPlaces(areas, a, b)

-----------------------------------------------------------------------------
(* Specification of lossFunction on its own *)

\* Layouts of three sets: a at the origin, b on the x axis, c on the
\* corners of a 3 by 4 rectangle.
LossLayouts ==
    {<<MkCircle("a", 0, 0, 2, 4, 0),
       MkCircle("b", bx, 0, br, br * br, 1),
       MkCircle("c", cp[1], cp[2], 1, 1, 2)>> :
        bx \in 0..4, br \in {1, 2}, cp \in {<<0, 4>>, <<3, 0>>, <<3, 4>>}}

LossWeights == {0, 2}

LossPool ==
    {MkArea(<<"a">>, 4)}
    \cup {MkArea(p, z) : p \in {<<"a", "b">>, <<"c", "a">>, <<"b", "c">>, <<"a", "b", "c">>}, z \in {0, 1}}
    \cup {MkWeighted(p, z, w) : p \in {<<"a", "b">>, <<"c", "a">>, <<"a", "b", "c">>},
                                z \in {0, 1}, w \in LossWeights}

InitLoss ==
    /\ pc = "start"
    /\ areas \in SeqsUpTo(LossPool, MaxOverlaps)
    /\ circles \in LossLayouts
    /\ completed = <<>>
    /\ lossOut = 0
    /\ heap = <<>>
    /\ call = NoCall
    /\ result = NoResult

CallLossFunction ==
    /\ pc = "start"
    /\ lossOut' = LossFunction(circles, areas)
    /\ pc' = "done"
    /\ UNCHANGED <<areas, completed, circles, heap, call, result>>

NextLoss == CallLossFunction

SpecLoss == InitLoss /\ [][NextLoss]_vars

\* The overlap a layout achieves for an Area of two or more sets.
AchievedOverlap(rec, area) ==
    IntersectionOverlap(rec, [k \in DOMAIN area.sets |-> Lookup(rec, area.sets[k])])

\* The weight the documentation gives an Area: its own when given, else 1.
GivenWeight(area) == IF area.hasWeight THEN area.weight ELSE 1

RECURSIVE SumOver(_, _)
\* The sum of f over the indices S.
SumOver(S, f) ==
    IF S = {} THEN 0
    ELSE LET i == CHOOSE j \in S : TRUE IN f[i] + SumOver(S \ {i}, f)

\* C4: lossFunction returns the sum, over the Areas of two or more sets, of
\* weight * (achieved overlap - size)^2, the weight being the Area's own
\* whenever one is given (0 included) and 1 otherwise.
C4_LossIsWeightedSum ==
    pc = "done" =>
        lossOut = SumOver({i \in DOMAIN areas : Len(areas[i].sets) >= 2},
                          [i \in DOMAIN areas |->
                             GivenWeight(areas[i])
                             * (AchievedOverlap(circles, areas[i]) - areas[i].size)
                             * (AchievedOverlap(circles, areas[i]) - areas[i].size)])

-----------------------------------------------------------------------------
(* Specification of the stages after layout, called on a layout: *)
(* disjointCluster, normalizeSolution and scaleSolution          *)

MaxCircles == 3

\* The keys of the layouts drawn, in key order.
StageKeys == <<"a", "", "b", "c">>

\* The Circles drawn: centres on the corners of a 3 by 4 rectangle (every
\* distance between two of them is an integer).
StageShapes ==
    {<<0, 0, 2>>, <<0, 0, 1>>, <<3, 0, 1>>, <<3, 0, 2>>, <<0, 4, 1>>, <<3, 4, 3>>}

\* The key lists drawn: at most MaxCircles of the keys, in key order.
StageKeyLists ==
    {SelectIdx([i \in DOMAIN StageKeys |-> i \in ks]) :
        ks \in {k \in SUBSET DOMAIN StageKeys : Cardinality(k) <= MaxCircles}}

StageOrientations == {"undefined", "null", "pi/2", "pi"}

StageOrders == {"undefined", "null", "radiusAscending"}

\* <<width, height, padding>>
StageViews == {<<10, 10, 0>>, <<10, 6, 1>>, <<4, 10, 3>>}

Refs(rec) == {rec[i].ref : i \in DOMAIN rec}

Keys(rec) == {rec[i].key : i \in DOMAIN rec}

InitStages ==
    /\ pc = "start"
    /\ areas = <<>>
    /\ completed = <<>>
    /\ circles = <<>>
    /\ lossOut = 0
    /\ \E ks \in StageKeyLists :
         \E shapes \in [DOMAIN ks -> StageShapes] :
            /\ heap = [i \in DOMAIN ks |->
                         MkObject(StageKeys[ks[i]], RInt(shapes[i][1]), RInt(shapes[i][2]),
                                  RInt(shapes[i][3]), shapes[i][3] * shapes[i][3], i - 1)]
            /\ call = [fn |-> "none",
                       arg |-> [i \in DOMAIN ks |-> MkEntry(StageKeys[ks[i]], i)]]
    /\ result = NoResult

\* normalizeSolution called on the layout.
CallNormalizeSolution ==
    /\ pc = "start"
    /\ \E o \in StageOrientations, order \in StageOrders :
         LET r == NormalizeSolution(heap, call.arg, o, order)
         IN  /\ heap' = r.heap
             /\ call' = [fn |-> "normalizeSolution", arg |-> call.arg, heap0 |-> heap,
                         orientation |-> o, order |-> order]
             /\ result' = [status |-> r.status, ret |-> r.ret, same |-> FALSE]
             /\ pc' = IF r.status = "ok" THEN "normalized" ELSE "thrown"
    /\ UNCHANGED <<areas, completed, circles, lossOut>>

\* scaleSolution called on the layout, or on what normalizeSolution returned.
CallScaleSolution ==
    /\ pc \in {"start", "normalized"}
    /\ \E v \in StageViews :
         LET arg == IF pc = "start" THEN call.arg ELSE result.ret
             r == ScaleSolution(heap, arg, RInt(v[1]), RInt(v[2]), RInt(v[3]))
         IN  /\ heap' = r.heap
             /\ call' = [fn |-> "scaleSolution", arg |-> arg, heap0 |-> heap,
                         width |-> v[1], height |-> v[2], padding |-> v[3]]
             /\ result' = [status |-> "ok", ret |-> r.ret, same |-> r.same]
             /\ pc' = "scaled"
    /\ UNCHANGED <<areas, completed, circles, lossOut>>

\* disjointCluster called on the Circles of the layout, step by step.
ClusterSetParents ==
    /\ pc = "start"
    /\ LET list == [i \in DOMAIN call.arg |-> call.arg[i].ref]
       IN  /\ heap' = SetParents(heap, list, 1)
           /\ call' = [fn |-> "disjointCluster", arg |-> call.arg, heap0 |-> heap, list |-> list]
    /\ pc' = "parents"
    /\ UNCHANGED <<areas, completed, circles, lossOut, result>>

ClusterUnion ==
    /\ pc = "parents"
    /\ heap' = UnionScan(heap, call.list, 1, 2)
    /\ pc' = "united"
    /\ UNCHANGED <<areas, completed, circles, lossOut, call, result>>

ClusterGroup ==
    /\ pc = "united"
    /\ LET g == GroupFrom(heap, call.list, 1, <<>>)
       IN  /\ heap' = g[1]
           /\ result' = [status |-> "grouping", ret |-> <<>>, same |-> FALSE,
                         clusters |-> ClustersOf(g[2])]
    /\ pc' = "grouped"
    /\ UNCHANGED <<areas, completed, circles, lossOut, call>>

ClusterReturn ==
    /\ pc = "grouped"
    /\ heap' = ClearParents(heap, call.list, 1)
    /\ result' = [result EXCEPT !.status = "ok"]
    /\ pc' = "clustered"
    /\ UNCHANGED <<areas, completed, circles, lossOut, call>>

\* orientateCircles(cluster, orientation, orientationOrder) called, as
\* normalizeSolution calls it, on one of the clusters disjointCluster
\* returned; the orientation is never null there.
CallOrientateCircles ==
    /\ pc = "clustered"
    /\ \E k \in DOMAIN result.clusters,
          o \in StageOrientations \ {"null"}, order \in StageOrders :
         \E r \in {OrientateCircles(heap, result.clusters[k], o, order)} :
            /\ heap' = r.heap
            /\ call' = [fn |-> "orientateCircles", arg |-> call.arg, heap0 |-> heap,
                        cluster |-> result.clusters[k], orientation |-> o,
                        order |-> order]
            /\ result' = [status |-> "ok", ret |-> <<>>, same |-> FALSE,
                          cluster |-> r.cluster]
    /\ pc' = "orientated"
    /\ UNCHANGED <<areas, completed, circles, lossOut>>

NextStages ==
    \/ CallNormalizeSolution
    \/ CallScaleSolution
    \/ ClusterSetParents
    \/ ClusterUnion
    \/ ClusterGroup
    \/ ClusterReturn
    \/ CallOrientateCircles

SpecStages == InitStages /\ [][NextStages]_vars

\* C10: when disjointCluster has returned, and when normalizeSolution has
\* returned, no Circle carries a parent: not the Circles passed in, not the
\* Circles of the returned clusters or record.
C10_NoParentAfterClustering ==
    pc \in {"clustered", "normalized", "thrown"} =>
        \A o \in DOMAIN heap : heap[o].parent = 0

\* disjointCluster has returned a cluster of two Circles, having skipped a
\* Circle with a falsy setid, and every one of them carried a parent during
\* the pass.
C10_Witness ==
    /\ pc = "clustered"
    /\ \E k \in DOMAIN result.clusters : Len(result.clusters[k]) = 2
    /\ \E i \in DOMAIN call.list :
         /\ ~Truthy(heap[call.list[i]].setid)
         /\ \A k \in DOMAIN result.clusters : call.list[i] \notin Range(result.clusters[k])

\* C9: after normalizeSolution or scaleSolution returns, the caller's
\* Circles are as they were at the call, and a record the call derived holds
\* none of the caller's Circle objects (a record handed back as is being the
\* caller's own record, unchanged).
C9_CallerStructureUntouched ==
    pc \in {"normalized", "scaled", "thrown"} =>
        /\ \A r \in Refs(call.arg) : heap[r] = call.heap0[r]
        /\ result.same => result.ret = call.arg
        /\ ~result.same => Refs(result.ret) \cap Refs(call.arg) = {}

\* normalizeSolution has returned a record in which a Circle stands somewhere
\* else than the caller's Circle of the same key.
C9_Witness ==
    /\ pc = "normalized"
    /\ \E i \in DOMAIN result.ret : \E j \in DOMAIN call.arg :
         /\ result.ret[i].key = call.arg[j].key
         /\ heap[result.ret[i].ref].x # heap[call.arg[j].ref].x

\* C7: every Circle of a record returned by normalizeSolution or
\* scaleSolution has a radius >= 0, whatever the layout, width, height and
\* padding.
C7_RadiiNonNegative ==
    pc \in {"normalized", "scaled"} =>
        \A i \in DOMAIN result.ret : RLe(RZero, heap[result.ret[i].ref].radius)

\* The circles of a list that overlap one of the circles of S, with S.
ReachStep(H, list, S) ==
    S \cup {o \in Range(list) : \E s \in S : Overlapping(H[s], H[o]) \/ Overlapping(H[o], H[s])}

RECURSIVE ReachFrom(_, _, _)
\* The circles linked to one of S by a chain of overlapping circles.
ReachFrom(H, list, S) ==
    IF ReachStep(H, list, S) = S THEN S
    ELSE ReachFrom(H, list, ReachStep(H, list, S))

\* The clusters of a returned list that hold the circle o.
ClustersHolding(clusters, o) == {k \in DOMAIN clusters : o \in Range(clusters[k])}

\* C11: the clusters disjointCluster returns are a partition of its input
\* into the connected components of the overlap graph: every circle is in
\* exactly one cluster, and two circles share a cluster exactly when a chain
\* of overlapping circles links them.
C11_ClustersAreComponents ==
    pc = "clustered" =>
        /\ \A o \in Range(call.list) :
              Cardinality(ClustersHolding(result.clusters, o)) = 1
        /\ \A a, b \in Range(call.list) :
              (ClustersHolding(result.clusters, a) \cap ClustersHolding(result.clusters, b) # {})
                <=> b \in ReachFrom(heap, call.list, {a})


\* C12: orientateCircles called without an orientationOrder leaves the
\* cluster sorted by radius descending, with its first, largest circle at
\* the origin.
C12_LargestAtOrigin ==
    (pc = "orientated" /\ call.order = "undefined") =>
        /\ \A i, j \in DOMAIN result.cluster :
              i < j => RLe(heap[result.cluster[j]].radius, heap[result.cluster[i]].radius)
        /\ heap[result.cluster[1]].x = RZero
        /\ heap[result.cluster[1]].y = RZero

\* The Circles a record names, in key order.
RefList(rec) == [i \in DOMAIN rec |-> rec[i].ref]

\* The circles at places i and j of the record passed in are in different
\* disjoint clusters: no chain of overlapping circles links them.
Apart(i, j) ==
    call.arg[j].ref \notin ReachFrom(call.heap0, RefList(call.arg), {call.arg[i].ref})

\* C13: in the record normalizeSolution returns, no circle of one disjoint
\* cluster of the input overlaps a circle of another.
C13_ClustersPackedApart ==
    pc = "normalized" =>
        \A i, j \in DOMAIN call.arg :
            Apart(i, j) =>
                ~Overlapping(heap[result.ret[i].ref], heap[result.ret[j].ref])

-----------------------------------------------------------------------------
(* Specification of scaleSolution called once and again on its own result *)

MaxScaled == 2

\* The keys of the layouts drawn, in key order.
ScaleKeys == <<"a", "", "b">>

\* The Circles drawn: those of StageShapes and three of radius 0.
ScaleShapes == StageShapes \cup {<<0, 0, 0>>, <<3, 0, 0>>, <<0, 4, 0>>}

ScaleKeyLists ==
    {SelectIdx([i \in DOMAIN ScaleKeys |-> i \in ks]) :
        ks \in {k \in SUBSET DOMAIN ScaleKeys : Cardinality(k) <= MaxScaled}}

\* <<width, height, padding>>
ScaleViews == StageViews \cup {<<6, 10, 3>>, <<500, 500, 0>>}

InitScale ==
    /\ pc = "start"
    /\ areas = <<>>
    /\ completed = <<>>
    /\ circles = <<>>
    /\ lossOut = 0
    /\ \E ks \in ScaleKeyLists :
         \E shapes \in [DOMAIN ks -> ScaleShapes] :
            /\ heap = [i \in DOMAIN ks |->
                         MkObject(ScaleKeys[ks[i]], RInt(shapes[i][1]), RInt(shapes[i][2]),
                                  RInt(shapes[i][3]), shapes[i][3] * shapes[i][3], i - 1)]
            /\ call = [fn |-> "none",
                       arg |-> [i \in DOMAIN ks |-> MkEntry(ScaleKeys[ks[i]], i)]]
    /\ result = NoResult

\* scaleSolution(s, width, height, padding)
ScaleOnce ==
    /\ pc = "start"
    /\ \E v \in ScaleViews :
         \E r \in {ScaleSolution(heap, call.arg, RInt(v[1]), RInt(v[2]), RInt(v[3]))} :
            /\ heap' = r.heap
            /\ call' = [fn |-> "scaleSolution", arg |-> call.arg, heap0 |-> heap,
                        view |-> v]
            /\ result' = [status |-> "ok", ret |-> r.ret, same |-> r.same]
    /\ pc' = "scaledOnce"
    /\ UNCHANGED <<areas, completed, circles, lossOut>>

\* scaleSolution(scaleSolution(s, w, h, p), w, h, p): the second call, on
\* the record the first returned.
ScaleAgain ==
    /\ pc = "scaledOnce"
    /\ \E r \in {ScaleSolution(heap, result.ret, RInt(call.view[1]), RInt(call.view[2]),
                               RInt(call.view[3]))} :
         /\ heap' = r.heap
         /\ result' = [status |-> "ok", ret |-> r.ret, same |-> r.same,
                       first |-> result.ret, firstSame |-> result.same]
    /\ pc' = "scaledTwice"
    /\ UNCHANGED <<areas, completed, circles, lossOut, call>>

NextScale ==
    \/ ScaleOnce
    \/ ScaleAgain

SpecScale == InitScale /\ [][NextScale]_vars

\* Two records have the same keys, with circles of the same position and
\* radius.
SamePlaces(H, r1, r2) ==
    /\ Len(r1) = Len(r2)
    /\ \A i \in DOMAIN r1 :
         /\ i \in DOMAIN r2
         /\ r1[i].key = r2[i].key
         /\ H[r1[i].ref].x = H[r2[i].ref].x
         /\ H[r1[i].ref].y = H[r2[i].ref].y
         /\ H[r1[i].ref].radius = H[r2[i].ref].radius

\* The bounding box has zero width or zero height.
Degenerate(b) == b.xmax = b.xmin \/ b.ymax = b.ymin

\* C14: scaling is idempotent: for a layout with a non-degenerate bounding
\* box, scaling the scaled layout again to the same width, height and
\* padding gives the same positions and radii.
C14_ScalingIdempotent ==
    (/\ pc = "scaledTwice"
     /\ call.arg # <<>>
     /\ ~Degenerate(GetBoundingBox(call.heap0, RefList(call.arg)))) =>
        SamePlaces(heap, result.first, result.ret)

\* C15: on a layout whose bounding box has zero width or zero height,
\* scaleSolution returns the record it was given, every Circle of it as it
\* was.
C15_DegenerateIsNoOp ==
    (/\ pc = "scaledOnce"
     /\ call.arg # <<>>
     /\ Degenerate(GetBoundingBox(call.heap0, RefList(call.arg)))) =>
        /\ result.ret = call.arg
        /\ \A r \in Refs(call.arg) : heap[r] = call.heap0[r]

\* scaleSolution has returned for two circles of radius 0 side by side: a
\* bounding box of zero height and of width 3.
C15_Witness ==
    /\ pc = "scaledOnce"
    /\ Len(call.arg) = 2
    /\ GetBoundingBox(call.heap0, RefList(call.arg)).ymax
         = GetBoundingBox(call.heap0, RefList(call.arg)).ymin
    /\ GetBoundingBox(call.heap0, RefList(call.arg)).xmax
         # GetBoundingBox(call.heap0, RefList(call.arg)).xmin
    /\ result.ret = call.arg

-----------------------------------------------------------------------------
(* Specification of bestInitialLayout called on an Area list *)

BestIds == <<"a", "b", "c", "d">>

\* The 2-way Areas of the first n ids, in the order (1,2), (1,3), .., with
\* the sizes given by place.
AllPairs(n) ==
    SelectSeq(<<<<1, 2>>, <<1, 3>>, <<1, 4>>, <<2, 3>>, <<2, 4>>, <<3, 4>>>>,
              LAMBDA p : p[2] <= n)

SinglesOf(n) == [i \in 1..n |-> MkArea(<<BestIds[i]>>, 16)]

PairsOf(n, sizes) ==
    [k \in DOMAIN AllPairs(n) |->
        MkArea(<<BestIds[AllPairs(n)[k][1]], BestIds[AllPairs(n)[k][2]]>>, sizes[k])]

\* The lists drawn: three or four sets of size 16 with all their pairs, of
\* size 0 or 4 (6 and 10 Areas), and three sets with their pairs, the triple
\* and a pair given twice (8 Areas).
BestInputs ==
    {SinglesOf(n) \o PairsOf(n, sizes) :
        n \in {4}, sizes \in [1..6 -> {0, 4}]}
    \cup {SinglesOf(3) \o PairsOf(3, sizes) : sizes \in [1..3 -> {0, 4}]}
    \cup {SinglesOf(3) \o PairsOf(3, sizes)
            \o <<MkArea(<<"a", "b", "c">>, 0), MkArea(<<"a", "b">>, sizes[1])>> :
          sizes \in [1..3 -> {0, 4}]}

InitBest ==
    /\ pc = "start"
    /\ areas \in BestInputs
    /\ completed = <<>>
    /\ circles = <<>>
    /\ lossOut = 0
    /\ heap = <<>>
    /\ call = NoCall
    /\ result = NoResult

\* bestInitialLayout(areas, params).  The call record keeps what the two
\* layouts are for these Areas and what conjugateGradient's positions were.
CallBestInitialLayout ==
    /\ pc = "start"
    /\ \E shape \in MdsShapes :
         /\ result' = BestInitialLayout(areas, shape)
         /\ call' = [fn |-> "bestInitialLayout", shape |-> shape,
                     greedy |-> GreedyLayout(areas),
                     constrained |-> ConstrainedMDSLayout(areas, shape)]
    /\ circles' = result'.circles
    /\ pc' = "done"
    /\ UNCHANGED <<areas, completed, lossOut, heap>>

NextBest == CallBestInitialLayout

SpecBest == InitBest /\ [][NextBest]_vars

\* C3 (as the code has it): bestInitialLayout hands back the constrained MDS
\* layout when the list it is given has 8 or more Areas, of any number of
\* sets, and the loss of that layout is lower than the greedy loss by more
\* than 1e-8 (one unit of loss); in every other case the greedy layout.
C3_MdsOnEightAreas ==
    (pc = "done" /\ call.greedy.status = "ok" /\ call.constrained.status = "ok") =>
        result.circles =
            IF /\ Len(areas) >= 8
               /\ LossFunction(call.constrained.circles, areas) + 1
                    < LossFunction(call.greedy.circles, areas)
            THEN call.constrained.circles
            ELSE call.greedy.circles

\* The MDS layout has been handed back, for a list of 8 or more Areas with
\* fewer than 8 single-set Areas.
C3_Witness ==
    /\ pc = "done"
    /\ Len(areas) >= 8
    /\ Len(SingleSetAreas(areas)) < 8
    /\ result.status = "ok"
    /\ result.circles = call.constrained.circles
    /\ result.circles # call.greedy.circles

\* C3 (as stated): the constrained MDS layout is in play only for an input
\* of 8 or more single-set Areas: with fewer, the result is the greedy layout.
C3_MdsOnEightSets ==
    (pc = "done" /\ call.greedy.status = "ok" /\ Len(SingleSetAreas(areas)) < 8) =>
        result.circles = call.greedy.circles

-----------------------------------------------------------------------------
(* Specification of venn and of vennSolution called on a caller's data *)

MaxData == 3

\* The Areas drawn: sets a and b, a set of size 0, a set with the empty
\* string for id, an overlap, an overlap of negative size and an overlap with
\* a set c that no single-set Area declares.
VennPool ==
    {MkArea(<<"a">>, 16), MkArea(<<"b">>, 16), MkArea(<<"b">>, 0), MkArea(<<"">>, 16),
     MkArea(<<"a", "b">>, 4), MkArea(<<"a", "b">>, -4), MkArea(<<"a", "c">>, 4)}

\* The data drawn: at most MaxData different Areas of the pool, in any order.
VennInputs ==
    {s \in SeqsUpTo(VennPool, MaxData) : \A i, j \in DOMAIN s : s[i] = s[j] => i = j}

VennLayouts == {"undefined", "greedy", "MDS"}

VennShapes == {[kind |-> "line", step |-> 6], [kind |-> "grid", step |-> 8]}

VennOrientations == {"undefined", "pi/2", "pi"}

\* width, height, padding
VennView == <<10, 10, 0>>

\* The objects and the CircleRecord of a layout, for the stages after it.
ToHeap(rec) ==
    [k \in DOMAIN rec |->
        MkObject(rec[k].setid, RInt(rec[k].x), RInt(rec[k].y), RInt(rec[k].radius),
                 rec[k].size, rec[k].rowid)]

ToRecord(rec) == [k \in DOMAIN rec |-> MkEntry(rec[k].setid, k)]

InitVenn ==
    /\ pc = "start"
    /\ areas \in VennInputs
    /\ completed = <<>>
    /\ circles = <<>>
    /\ lossOut = 0
    /\ heap = <<>>
    /\ call = NoCall
    /\ result = NoResult

\* The MDS layout is asked for only where conjugateGradient's positions are
\* finite.
LayoutDefined(as, layout) == layout = "MDS" => MdsDefined(AddMissingAreas(as))

\* venn(areas, {layout}) called by the caller.
CallVenn ==
    /\ pc = "start"
    /\ \E layout \in VennLayouts, shape \in VennShapes, nm \in Refinements :
         /\ LayoutDefined(areas, layout)
         /\ call' = [fn |-> "venn", layout |-> layout, shape |-> shape, nm |-> nm]
         /\ \E r \in {Venn(areas, layout, shape, nm)} :
              /\ circles' = r.circles
              /\ heap' = ToHeap(r.circles)
              /\ result' = [status |-> r.status, error |-> r.error,
                            ret |-> ToRecord(r.circles), stages |-> <<>>]
              /\ pc' = IF r.status = "ok" THEN "vennReturned" ELSE "vennThrew"
    /\ completed' = AddMissingAreas(areas)
    /\ UNCHANGED <<areas, lossOut>>

\* data.filter(datum => datum.size !== 0 && datum.sets.length > 0)
SafeData(data) == SelectSeq(data, LAMBDA datum : datum.size # 0 /\ Len(datum.sets) > 0)

\* vennSolution(data, options) up to its first stage: the filter, and the
\* early return on no data.
VennSolutionStart ==
    /\ pc = "start"
    /\ \E layout \in VennLayouts, orientation \in VennOrientations :
         /\ LayoutDefined(SafeData(areas), layout)
         /\ call' = [fn |-> "vennSolution", layout |-> layout, orientation |-> orientation,
                     order |-> "undefined", safeData |-> SafeData(areas)]
    /\ result' = [status |-> IF SafeData(areas) = <<>> THEN "ok" ELSE "running",
                  error |-> "", ret |-> <<>>, stages |-> <<>>]
    /\ pc' = IF SafeData(areas) = <<>> THEN "vsReturned" ELSE "vsFiltered"
    /\ UNCHANGED <<areas, completed, circles, lossOut, heap>>

\* let solution = venn(safeData, { layout, seed })
StageVenn ==
    /\ pc = "vsFiltered"
    /\ \E shape \in VennShapes, nm \in Refinements :
         \E r \in {Venn(call.safeData, call.layout, shape, nm)} :
            /\ circles' = r.circles
            /\ heap' = ToHeap(r.circles)
            /\ result' = [status |-> IF r.status = "ok" THEN "running" ELSE "throw",
                          error |-> r.error, ret |-> ToRecord(r.circles),
                          stages |-> Append(result.stages, "venn")]
            /\ pc' = IF r.status = "ok" THEN "vsLaidOut" ELSE "vsThrew"
    /\ completed' = AddMissingAreas(call.safeData)
    /\ UNCHANGED <<areas, lossOut, call>>

NeverSkipsNormalize(orientation) == FALSE

\* orientation !== Math.PI / 2 fails: normalizeSolution is not called.
SkipsNormalize(orientation) == orientation = "pi/2"

ClustersUndefined == "TypeError: Cannot read properties of undefined (reading 'bounds')"

\* solution = normalizeSolution(solution, orientation, orientationOrder)
StageNormalize ==
    /\ pc = "vsLaidOut"
    /\ ~SkipsNormalize(call.orientation)
    /\ \E r \in {NormalizeSolution(heap, result.ret, call.orientation, call.order)} :
         /\ heap' = r.heap
         /\ result' = [status |-> IF r.status = "ok" THEN "running" ELSE "throw",
                       error |-> IF r.status = "ok" THEN "" ELSE ClustersUndefined,
                       ret |-> r.ret,
                       stages |-> Append(result.stages, "normalizeSolution")]
         /\ pc' = IF r.status = "ok" THEN "vsNormalized" ELSE "vsThrew"
    /\ UNCHANGED <<areas, completed, circles, lossOut, call>>

\* solution = scaleSolution(solution, width, height, padding)
StageScale ==
    /\ \/ pc = "vsNormalized"
       \/ pc = "vsLaidOut" /\ SkipsNormalize(call.orientation)
    /\ \E r \in {ScaleSolution(heap, result.ret, RInt(VennView[1]), RInt(VennView[2]),
                               RInt(VennView[3]))} :
         /\ heap' = r.heap
         /\ result' = [result EXCEPT !.ret = r.ret,
                                     !.stages = Append(@, "scaleSolution")]
    /\ pc' = "vsScaled"
    /\ UNCHANGED <<areas, completed, circles, lossOut, call>>

RadiusOfUndefined == "TypeError: Cannot read properties of undefined (reading 'radius')"

\* The key computeTextCentres files the centre of an Area under.
RECURSIVE JoinIds(_)
JoinIds(sets) ==
    IF sets = <<>> THEN ""
    ELSE IF Len(sets) = 1 THEN sets[1]
    ELSE sets[1] \o "," \o JoinIds(Tail(sets))

\* computeTextCentre is given no interior circle for an Area none of whose
\* sets is a key of the solution: circleMargin reads interior[0].radius.
NoInterior(solution, data) ==
    \E i \in DOMAIN data : Range(data[i].sets) \cap Keys(solution) = {}

\* intersectionAreaPath is handed an undefined circle for an Area one of
\* whose sets is not a key of the solution.
UndefinedCircle(solution, data) ==
    \E i \in DOMAIN data : ~(Range(data[i].sets) \subseteq Keys(solution))

\* const textCenters = computeTextCentres(solution, safeData), and the
\* assembly of the result.  The model keeps the keys of the text centres,
\* not their coordinates.  What intersectionArea does with an undefined
\* circle the source at hand does not say: either outcome is possible.
StageTextCentres ==
    /\ pc = "vsScaled"
    /\ \E outcome \in {"ok", "throw"} :
         /\ outcome = "throw" => UndefinedCircle(result.ret, call.safeData)
         /\ outcome = "ok" => ~NoInterior(result.ret, call.safeData)
         /\ result' = [result EXCEPT
                         !.status = outcome,
                         !.error = IF NoInterior(result.ret, call.safeData)
                                   THEN RadiusOfUndefined
                                   ELSE IF outcome = "throw" THEN "TypeError" ELSE "",
                         !.stages = Append(@, "computeTextCentres")]
         /\ pc' = IF outcome = "ok" THEN "vsReturned" ELSE "vsThrew"
    /\ UNCHANGED <<areas, completed, circles, lossOut, heap, call>>

NextVenn ==
    \/ CallVenn
    \/ VennSolutionStart
    \/ StageVenn
    \/ StageNormalize
    \/ StageScale
    \/ StageTextCentres

SpecVenn == InitVenn /\ [][NextVenn]_vars

\* The ids of the single-set Areas of a list.
SingleIdSet(as) == Range(SingleIds(as))

\* C2: the CircleRecord venn returns, and the one each later stage returns
\* when applied to it, has for keys exactly the ids of the single-set Areas
\* supplied.
C2_KeysAreSingleSetIds ==
    /\ pc = "vennReturned" => Keys(result.ret) = SingleIdSet(areas)
    /\ pc \in {"vsLaidOut", "vsNormalized", "vsScaled"} =>
         Keys(result.ret) = SingleIdSet(call.safeData)

\* An Area names a set that no single-set Area declares, or has a negative
\* size.
Inconsistent(as) ==
    \E i \in DOMAIN as :
        \/ as[i].size < 0
        \/ ~(Range(as[i].sets) \subseteq DeclaredIds(as))

\* The failures raised from inside the layout stages.
LayoutErrors == {MissingOverlap, BisectSigns, SizeOfUndefined}

\* C5: venn called on inconsistent Areas produces no layout, and fails with
\* an error raised before the layout stage rather than from inside it.
C5_InconsistencyRejectedAtBoundary ==
    (pc \in {"vennReturned", "vennThrew"} /\ Inconsistent(areas)) =>
        /\ result.status = "throw"
        /\ result.error \notin LayoutErrors

\* C6: venn with the greedy layout, on Areas whose 2-way Areas name declared
\* sets only, never fails for missing pairwise overlap information.
C6_GreedyFailureUnreachable ==
    (/\ pc \in {"vennReturned", "vennThrew"}
     /\ call.layout = "greedy"
     /\ \A i \in DOMAIN areas : Range(areas[i].sets) \subseteq DeclaredIds(areas)) =>
        result.error # MissingOverlap

RECURSIVE IsPrefix(_, _)
IsPrefix(s, t) ==
    \/ s = <<>>
    \/ /\ t # <<>>
       /\ Head(s) = Head(t)
       /\ IsPrefix(Tail(s), Tail(t))

AllStages == <<"venn", "normalizeSolution", "scaleSolution", "computeTextCentres">>

StagesFor(orientation) ==
    IF orientation = "pi/2"
    THEN <<"venn", "scaleSolution", "computeTextCentres">>
    ELSE AllStages

\* C8 (as the code has it): the stages of vennSolution run in the order venn,
\* normalizeSolution, scaleSolution, computeTextCentres, without
\* normalizeSolution when the orientation is Math.PI / 2; a stage that throws
\* ends the run, and a run that returns for data that survive the filter has
\* gone through all of them.
C8_StagesInOrder ==
    (pc \notin {"start"} /\ call.fn = "vennSolution") =>
        /\ IsPrefix(result.stages, StagesFor(call.orientation))
        /\ (pc = "vsReturned" /\ call.safeData # <<>>) =>
              result.stages = StagesFor(call.orientation)
        /\ (pc = "vsReturned" /\ call.safeData = <<>>) => result.stages = <<>>

\* vennSolution has returned after all four stages.
C8_Witness ==
    /\ pc = "vsReturned"
    /\ call.fn = "vennSolution"
    /\ call.orientation = "pi"
    /\ Len(call.safeData) >= 2
    /\ result.stages = AllStages

\* C8 (as stated): a call of vennSolution that returns, for data of which
\* some survive the filter, has gone through all four stages: normalization
\* is never skipped.
C8_NormalizationNeverSkipped ==
    (pc = "vsReturned" /\ call.fn = "vennSolution" /\ call.safeData # <<>>) =>
        result.stages = AllStages

-----------------------------------------------------------------------------
(* Specification of venn with the layout best followed by scaleSolution *)

\* The sizes drawn, in units of pi times the square of the unit of length:
\* sets of radius 4, 6 and 12, overlaps of 0, 4 and 24.  With sqrt(12 / pi) / 12
\* for unit of length, 144 is the size 12 and 24 the size 2.
RadiiSetSizes == {16, 36, 144}

RadiiOverlapSizes == {0, 4, 24}

RadiiInputs ==
    {<<MkArea(<<"a">>, sa), MkArea(<<"b">>, sb), MkArea(<<"a", "b">>, ov)>> :
        sa \in RadiiSetSizes, sb \in RadiiSetSizes, ov \in RadiiOverlapSizes}
    \cup {<<MkArea(<<"a">>, sa), MkArea(<<"b">>, sb)>> :
            sa \in RadiiSetSizes, sb \in RadiiSetSizes}

\* <<width, height, padding>>
RadiiViews == {<<500, 500, 0>>, <<10, 10, 0>>, <<10, 6, 1>>}

InitRadii ==
    /\ pc = "start"
    /\ areas \in RadiiInputs
    /\ completed = <<>>
    /\ circles = <<>>
    /\ lossOut = 0
    /\ heap = <<>>
    /\ call = NoCall
    /\ result = NoResult

\* venn(areas, {layout: "best"})
VennBest ==
    /\ pc = "start"
    /\ \E shape \in VennShapes, nm \in Refinements :
         /\ call' = [fn |-> "venn", layout |-> "best", nm |-> nm]
         /\ \E r \in {Venn(areas, "best", shape, nm)} :
              /\ circles' = r.circles
              /\ heap' = ToHeap(r.circles)
              /\ result' = [status |-> r.status, ret |-> ToRecord(r.circles), same |-> FALSE]
              /\ pc' = IF r.status = "ok" THEN "radiiLaidOut" ELSE "radiiThrew"
    /\ completed' = AddMissingAreas(areas)
    /\ UNCHANGED <<areas, lossOut>>

\* scaleSolution(solution, width, height, padding) on what venn returned
ScaleLayout ==
    /\ pc = "radiiLaidOut"
    /\ \E v \in RadiiViews :
         \E r \in {ScaleSolution(heap, result.ret, RInt(v[1]), RInt(v[2]), RInt(v[3]))} :
            /\ heap' = r.heap
            /\ call' = [fn |-> "scaleSolution", arg |-> result.ret, heap0 |-> heap,
                        view |-> v]
            /\ result' = [status |-> "ok", ret |-> r.ret, same |-> r.same]
    /\ pc' = "radiiScaled"
    /\ UNCHANGED <<areas, completed, circles, lossOut>>

NextRadii ==
    \/ VennBest
    \/ ScaleLayout

SpecRadii == InitRadii /\ [][NextRadii]_vars

\* The width and height left by the padding.
ViewWidth(v) == RInt(v[1] - 2 * v[3])

ViewHeight(v) == RInt(v[2] - 2 * v[3])

BoxWidth(b) == RSub(b.xmax, b.xmin)

BoxHeight(b) == RSub(b.ymax, b.ymin)

\* A bounding box fits the view and spans its width or its height.
FillsView(b, v) ==
    /\ RLe(BoxWidth(b), ViewWidth(v))
    /\ RLe(BoxHeight(b), ViewHeight(v))
    /\ BoxWidth(b) = ViewWidth(v) \/ BoxHeight(b) = ViewHeight(v)

\* The Areas 12, 12 and 2 of two sets and their overlap, scaled to 500 by 500
\* with no padding.
TwelveTwelveTwo ==
    /\ areas = <<MkArea(<<"a">>, 144), MkArea(<<"b">>, 144), MkArea(<<"a", "b">>, 24)>>
    /\ call.view = <<500, 500, 0>>

\* C16 (as the code has it): the layout venn returns gives every set the
\* radius whose circle has the set's size (sqrt(12 / pi) for a size of 12);
\* scaleSolution multiplies every radius by one factor, the one that makes the
\* diagram span the padded width or height, so sets of equal size keep equal
\* radii, and for the sizes 12, 12 and 2 in 500 by 500 the radius is 125 or
\* more.
C16_RadiiScaledToView ==
    pc = "radiiScaled" =>
        /\ \A i \in DOMAIN circles : circles[i].radius * circles[i].radius = circles[i].size
        /\ \A i, j \in DOMAIN result.ret :
              RMul(heap[result.ret[i].ref].radius, heap[call.arg[j].ref].radius)
                = RMul(heap[result.ret[j].ref].radius, heap[call.arg[i].ref].radius)
        /\ FillsView(GetBoundingBox(heap, RefList(result.ret)), call.view)
        /\ TwelveTwelveTwo =>
              \A i \in DOMAIN result.ret : RLe(RInt(125), heap[result.ret[i].ref].radius)

\* The sizes 12, 12 and 2 have been laid out and scaled to 500 by 500: two
\* circles of one radius.
C16_Witness ==
    /\ pc = "radiiScaled"
    /\ TwelveTwelveTwo
    /\ Len(result.ret) = 2
    /\ heap[result.ret[1].ref].radius = heap[result.ret[2].ref].radius
    /\ circles[1].radius = 12

\* sqrt(12 / pi) lies between these two.
Sqrt12OverPiBelow == <<19544, 10000>>

Sqrt12OverPiAbove == <<19545, 10000>>

\* C16 (as stated): for the sizes 12, 12 and 2, laid out and scaled to 500 by
\* 500, the two radii are equal and are sqrt(12 / pi).
C16_ScaledRadiusIsLayoutRadius ==
    (pc = "radiiScaled" /\ TwelveTwelveTwo) =>
        \A i \in DOMAIN result.ret :
            /\ heap[result.ret[i].ref].radius = heap[result.ret[1].ref].radius
            /\ RLt(Sqrt12OverPiBelow, heap[result.ret[i].ref].radius)
            /\ RLt(heap[result.ret[i].ref].radius, Sqrt12OverPiAbove)

-----------------------------------------------------------------------------
(* computeTextCentres and computeTextCentre (diagram.ts), on the integers *)

MkPoint(x, y) == [x |-> x, y |-> y]

\* A text centre: a point, flagged disjoint or not.
MkCentre(x, y, disjoint) == [x |-> x, y |-> y, disjoint |-> disjoint]

\* distance(ret, interior[i]) > interior[i].radius
OutsideOf(p, c) == Distance2(p, c) > c.radius * c.radius

\* distance(ret, exterior[i]) < exterior[i].radius
WithinOf(p, c) == Distance2(p, c) < c.radius * c.radius

\* The validity check of computeTextCentre.
ValidCentre(p, interior, exterior) ==
    /\ \A i \in DOMAIN interior : ~OutsideOf(p, interior[i])
    /\ \A i \in DOMAIN exterior : ~WithinOf(p, exterior[i])

\* The first circle of the smallest radius.
SmallestOf(cs) ==
    cs[CHOOSE i \in DOMAIN cs :
          /\ \A j \in DOMAIN cs : cs[i].radius <= cs[j].radius
          /\ \A j \in DOMAIN cs : (j < i) => cs[j].radius > cs[i].radius]

\* intersectionArea(circles).stats.arcs for two circles: none when the
\* circles do not jointly overlap, one arc, of the smaller circle, when it
\* lies wholly in the other, else an arc ending at each crossing point.
ArcsOfTwo(c1, c2, d2) ==
    IF d2 > (c1.radius - c2.radius) * (c1.radius - c2.radius)
       /\ d2 >= (c1.radius + c2.radius) * (c1.radius + c2.radius)
    THEN <<>>
    ELSE IF d2 <= (c1.radius - c2.radius) * (c1.radius - c2.radius)
    THEN <<[circle |-> SmallestOf(<<c1, c2>>),
            p1 |-> MkPoint(SmallestOf(<<c1, c2>>).x,
                           SmallestOf(<<c1, c2>>).y + SmallestOf(<<c1, c2>>).radius)]>>
    ELSE <<[circle |-> c1,
            p1 |-> CircleCircleIntersection(c1.x, c1.y, c1.radius, c2.x, c2.y, c2.radius)[1]],
           [circle |-> c2,
            p1 |-> CircleCircleIntersection(c1.x, c1.y, c1.radius, c2.x, c2.y, c2.radius)[2]]>>

\* intersectionArea(interior).stats.arcs, for the one or two circles the
\* model hands it.
ArcsOf(cs) ==
    IF Len(cs) = 1
    THEN <<[circle |-> cs[1], p1 |-> MkPoint(cs[1].x, cs[1].y + cs[1].radius)]>>
    ELSE ArcsOfTwo(cs[1], cs[2], Distance2(cs[1], cs[2]))

RECURSIVE SumX(_), SumY(_)
SumX(arcs) == IF arcs = <<>> THEN 0 ELSE arcs[1].p1.x + SumX(Tail(arcs))

SumY(arcs) == IF arcs = <<>> THEN 0 ELSE arcs[1].p1.y + SumY(Tail(arcs))

\* getCenter(arcs.map(a => a.p1)): the average of the points.
GetCenter(arcs) ==
    MkCentre(SumX(arcs) \div Len(arcs), SumY(arcs) \div Len(arcs), FALSE)

\* { x: 0, y: -1000, disjoint: true }
Sentinel == MkCentre(0, -1000, TRUE)

CentreOf(c) == MkCentre(c.x, c.y, FALSE)

\* The fallback of computeTextCentre(interior, []) on the arcs of two or more
\* interior circles.
FallbackAlone(arcs) ==
    IF Len(arcs) = 0 THEN Sentinel
    ELSE IF Len(arcs) = 1 THEN CentreOf(arcs[1].circle)
    ELSE GetCenter(arcs)

\* computeTextCentre(interior, []), nelderMead giving the point `refined`.
TextCentreAlone(interior, refined) ==
    IF ValidCentre(refined, interior, <<>>) THEN MkCentre(refined.x, refined.y, FALSE)
    ELSE IF Len(interior) = 1 THEN CentreOf(interior[1])
    ELSE FallbackAlone(ArcsOf(interior))

\* A fallback that tries again without the exterior circles before it looks
\* at the number of arcs.
FallbackRetryFirst(interior, exterior, arcs, retried) ==
    IF Len(exterior) > 0 THEN TextCentreAlone(interior, retried)
    ELSE IF Len(arcs) = 0 THEN Sentinel
    ELSE IF Len(arcs) = 1 THEN CentreOf(arcs[1].circle)
    ELSE GetCenter(arcs)

\* The fallback of computeTextCentre on the arcs of two or more interior
\* circles; `retried` is nelderMead's point in the call without exterior
\* circles.
Fallback(interior, exterior, arcs, retried) ==
    IF Len(arcs) = 0 THEN Sentinel
    ELSE IF Len(arcs) = 1 THEN CentreOf(arcs[1].circle)
    ELSE IF Len(exterior) > 0 THEN TextCentreAlone(interior, retried)
    ELSE GetCenter(arcs)

\* computeTextCentre(interior, exterior) for a non-empty interior.
ComputeTextCentre(interior, exterior, refined, retried) ==
    IF ValidCentre(refined, interior, exterior) THEN MkCentre(refined.x, refined.y, FALSE)
    ELSE IF Len(interior) = 1 THEN CentreOf(interior[1])
    ELSE Fallback(interior, exterior, ArcsOf(interior), retried)

\* getOverlappingCircles(circles)[id]: the circles that hold circle j whole.
\* Of two circles each in the other, only the later one is listed as held.
HoldsWhole(a, b) ==
    a.radius >= b.radius /\ Distance2(a, b) <= (a.radius - b.radius) * (a.radius - b.radius)

Overlapped(cs, j) ==
    {cs[i].setid : i \in {k \in DOMAIN cs :
        \/ k < j /\ HoldsWhole(cs[k], cs[j])
        \/ k > j /\ HoldsWhole(cs[k], cs[j]) /\ ~HoldsWhole(cs[j], cs[k])}}

\* exclude: every circle that holds one of the Area's circles whole.
Excluded(cs, sets) ==
    UNION {Overlapped(cs, j) : j \in {k \in DOMAIN cs : cs[k].setid \in Range(sets)}}

\* interior: the circles of the Area's sets, in key order.
InteriorOf(cs, sets) == SelectSeq(cs, LAMBDA c : c.setid \in Range(sets))

ExteriorFrom(cs, sets, exclude) ==
    SelectSeq(cs, LAMBDA c : c.setid \notin Range(sets) /\ c.setid \notin exclude)

\* exterior: the other circles, those of `exclude` left out.
ExteriorOf(cs, sets) == ExteriorFrom(cs, sets, Excluded(cs, sets))

\* ret[key] = entry: a key already there keeps its place.
PutCentre(ret, entry) ==
    IF \E i \in DOMAIN ret : ret[i].key = entry.key
    THEN [i \in DOMAIN ret |-> IF ret[i].key = entry.key THEN entry ELSE ret[i]]
    ELSE Append(ret, entry)

\* One round of the loop of computeTextCentres: the centre of the Area, kept
\* with the circles computeTextCentre was given.
CentreEntry(sets, interior, exterior, refined, retried) ==
    [key |-> JoinIds(sets), interior |-> interior, exterior |-> exterior,
     refined |-> refined, retried |-> retried,
     centre |-> ComputeTextCentre(interior, exterior, refined, retried)]

RECURSIVE TextCentresFrom(_, _, _, _, _, _)
\* The loop of computeTextCentres from Area i on; a throw when an Area has
\* no interior circle (circleMargin reads interior[0].radius).
TextCentresFrom(cs, as, i, refined, retried, ret) ==
    IF i > Len(as) THEN [status |-> "ok", error |-> "", centres |-> ret]
    ELSE IF InteriorOf(cs, as[i].sets) = <<>>
    THEN [status |-> "throw", error |-> RadiusOfUndefined, centres |-> <<>>]
    ELSE TextCentresFrom(cs, as, i + 1, refined, retried,
                         PutCentre(ret, CentreEntry(as[i].sets, InteriorOf(cs, as[i].sets),
                                                    ExteriorOf(cs, as[i].sets),
                                                    refined[i], retried)))

\* computeTextCentres(circles, areas), nelderMead giving the point
\* refined[i] for Area i and `retried` in a call without exterior circles.
ComputeTextCentres(cs, as, refined, retried) ==
    TextCentresFrom(cs, as, 1, refined, retried, <<>>)

\* The text anchor vennSolution reports for a centre: textX and textY, both
\* undefined for a centre flagged disjoint.
AnchorOf(centre) ==
    IF centre.disjoint THEN [textX |-> "undefined", textY |-> "undefined"]
    ELSE [textX |-> centre.x, textY |-> centre.y]

-----------------------------------------------------------------------------
(* Specification of computeTextCentres and of the result vennSolution     *)
(* assembles from the text centres                                        *)

MaxRequested == 3

TextKeys == <<"a", "b", "c">>

\* The Circles drawn for each key, <<x, y, radius>>: for a, a circle of
\* radius 4 about the origin; for b, circles that cross it, touch it, lie
\* apart from it and lie inside it, one of radius 0; for c, a circle apart
\* from those and one that holds a whole.
TextShapes ==
    <<{<<0, 0, 4>>},
      {<<6, 0, 4>>, <<8, 0, 4>>, <<12, 0, 2>>, <<1, 0, 2>>, <<1, 0, 0>>},
      {<<20, 0, 2>>, <<0, 0, 6>>}>>

TextKeyLists ==
    {SelectIdx([i \in DOMAIN TextKeys |-> i \in ks]) : ks \in SUBSET DOMAIN TextKeys}

\* The points nelderMead's solution is drawn from.
TextPoints == {MkPoint(3, 0), MkPoint(4, 0), MkPoint(1, 0), MkPoint(30, 0)}

\* The Area lists asked for.
TextRequests ==
    {r \in {<<MkArea(<<"a">>, 4)>>,
            <<MkArea(<<"a", "b">>, 4)>>,
            <<MkArea(<<"a">>, 4), MkArea(<<"a", "b">>, 4)>>,
            <<MkArea(<<"a">>, 4), MkArea(<<"b">>, 4), MkArea(<<"a", "b">>, 4)>>} :
        Len(r) <= MaxRequested}

InitText ==
    /\ pc = "start"
    /\ areas \in TextRequests
    /\ completed = <<>>
    /\ \E ks \in TextKeyLists :
         \E shapes \in [DOMAIN ks -> UNION Range(TextShapes)] :
            /\ \A i \in DOMAIN ks : shapes[i] \in TextShapes[ks[i]]
            /\ circles = [i \in DOMAIN ks |->
                            MkCircle(TextKeys[ks[i]], shapes[i][1], shapes[i][2], shapes[i][3],
                                     shapes[i][3] * shapes[i][3], i - 1)]
    /\ lossOut = 0
    /\ heap = <<>>
    /\ call = NoCall
    /\ result = NoResult

\* computeTextCentres(circles, areas)
CallComputeTextCentres ==
    /\ pc = "start"
    /\ \E refined \in [DOMAIN areas -> TextPoints], retried \in TextPoints :
         \E r \in {ComputeTextCentres(circles, areas, refined, retried)} :
            /\ call' = [fn |-> "computeTextCentres", refined |-> refined,
                        retried |-> retried]
            /\ result' = [status |-> r.status, error |-> r.error, centres |-> r.centres,
                          intersections |-> <<>>]
            /\ pc' = IF r.status = "ok" THEN "centred" ELSE "centresThrew"
    /\ UNCHANGED <<areas, completed, circles, lossOut, heap>>

XOfUndefined == "TypeError: Cannot read properties of undefined (reading 'x')"

\* The centre filed under the key of an Area.
CentreUnder(centres, key) ==
    centres[CHOOSE i \in DOMAIN centres : centres[i].key = key].centre

\* The intersections vennSolution reports: for every Area of two or more
\* sets, its sets and its text anchor.
IntersectionsOf(data, centres) ==
    [k \in DOMAIN SelectSeq(data, LAMBDA datum : Len(datum.sets) > 1) |->
        [sets |-> SelectSeq(data, LAMBDA datum : Len(datum.sets) > 1)[k].sets,
         anchor |-> AnchorOf(CentreUnder(centres,
                        JoinIds(SelectSeq(data, LAMBDA datum : Len(datum.sets) > 1)[k].sets)))]]

\* A circle has no text centre: textCenters[key] is undefined.
NoCentreFor(cs, centres) ==
    \E i \in DOMAIN cs : \A j \in DOMAIN centres : centres[j].key # cs[i].setid

\* An Area names a set that has no circle: intersectionAreaPath is handed an
\* undefined circle.
UndefinedMember(cs, data) ==
    \E i \in DOMAIN data : \E s \in Range(data[i].sets) : Lookup(cs, s) = 0

\* The rest of vennSolution after computeTextCentres: the intersections with
\* their text anchors, then the circles with theirs.  What intersectionArea
\* does with an undefined circle the source at hand does not say: either
\* outcome is possible.
AssembleResult ==
    /\ pc = "centred"
    /\ \E outcome \in {"ok", "throw"} :
         /\ outcome = "throw" =>
               UndefinedMember(circles, areas) \/ NoCentreFor(circles, result.centres)
         /\ outcome = "ok" => ~NoCentreFor(circles, result.centres)
         /\ result' = [result EXCEPT
                         !.status = outcome,
                         !.error = IF outcome = "ok" THEN ""
                                   ELSE IF NoCentreFor(circles, result.centres)
                                   THEN XOfUndefined ELSE "TypeError",
                         !.intersections = IF outcome = "ok"
                                           THEN IntersectionsOf(areas, result.centres)
                                           ELSE <<>>]
         /\ pc' = IF outcome = "ok" THEN "assembled" ELSE "assemblyThrew"
    /\ UNCHANGED <<areas, completed, circles, lossOut, heap, call>>

NextText ==
    \/ CallComputeTextCentres
    \/ AssembleResult

SpecText == InitText /\ [][NextText]_vars

\* C17: the centre computeTextCentre returns is the refined point, with no
\* disjoint flag, when that point passes the validation; when it fails, it
\* is the first of: (a) the centre of a single interior circle, (b) the
\* sentinel flagged disjoint when the interior has no arcs, (c) the centre
\* of the circle of a single arc, (d) the result of the call without
\* exterior circles when there are exterior circles, (e) the centroid of the
\* arc points.
C17_FallbackOrder ==
    pc \in {"centred", "assembled", "assemblyThrew"} =>
        \A k \in DOMAIN result.centres :
            LET e == result.centres[k]
                valid == /\ \A i \in DOMAIN e.interior :
                               Distance2(e.refined, e.interior[i])
                                 <= e.interior[i].radius * e.interior[i].radius
                         /\ \A i \in DOMAIN e.exterior :
                               Distance2(e.refined, e.exterior[i])
                                 >= e.exterior[i].radius * e.exterior[i].radius
                arcs == ArcsOf(e.interior)
            IN  /\ valid => e.centre = MkCentre(e.refined.x, e.refined.y, FALSE)
                /\ (~valid /\ Len(e.interior) = 1) =>
                      e.centre = MkCentre(e.interior[1].x, e.interior[1].y, FALSE)
                /\ (~valid /\ Len(e.interior) > 1 /\ Len(arcs) = 0) =>
                      e.centre = MkCentre(0, -1000, TRUE)
                /\ (~valid /\ Len(e.interior) > 1 /\ Len(arcs) = 1) =>
                      e.centre = MkCentre(arcs[1].circle.x, arcs[1].circle.y, FALSE)
                /\ (~valid /\ Len(e.interior) > 1 /\ Len(arcs) > 1 /\ e.exterior # <<>>) =>
                      e.centre = TextCentreAlone(e.interior, e.retried)
                /\ (~valid /\ Len(e.interior) > 1 /\ Len(arcs) > 1 /\ e.exterior = <<>>) =>
                      e.centre = GetCenter(arcs)

\* computeTextCentres has returned a centre that came from the call without
\* exterior circles: two interior circles that cross, an exterior circle and
\* a refined point that failed the validation.
C17_Witness ==
    /\ pc = "centred"
    /\ \E k \in DOMAIN result.centres :
         /\ Len(result.centres[k].interior) = 2
         /\ Len(ArcsOf(result.centres[k].interior)) = 2
         /\ result.centres[k].exterior # <<>>
         /\ ~ValidCentre(result.centres[k].refined, result.centres[k].interior,
                         result.centres[k].exterior)
         /\ result.centres[k].centre
              = MkCentre(result.centres[k].retried.x, result.centres[k].retried.y, FALSE)

\* The circles have no area in common: one of them has radius 0, or two of
\* them lie apart or touch.
ZeroJointArea(cs) ==
    \/ \E i \in DOMAIN cs : cs[i].radius = 0
    \/ \E i, j \in DOMAIN cs :
          Distance2(cs[i], cs[j]) >= (cs[i].radius + cs[j].radius) * (cs[i].radius + cs[j].radius)
          /\ i # j

\* C18: the centre of an Area whose circles have no area in common is
\* flagged disjoint, and the text anchor vennSolution reports for it is
\* undefined.
C18_ZeroAreaIsDisjoint ==
    /\ pc \in {"centred", "assembled"} =>
          \A k \in DOMAIN result.centres :
              ZeroJointArea(result.centres[k].interior) => result.centres[k].centre.disjoint
    /\ pc = "assembled" =>
          \A k \in DOMAIN result.intersections :
              ZeroJointArea(InteriorOf(circles, result.intersections[k].sets)) =>
                  result.intersections[k].anchor
                    = [textX |-> "undefined", textY |-> "undefined"]

-----------------------------------------------------------------------------
(* createRandomGenerator (layout.ts): 32-bit words as two 16-bit halves,  *)
(* <<high, low>>, every operation modulo 2^32                             *)

RECURSIVE Pow2(_)
Pow2(k) == IF k = 0 THEN 1 ELSE 2 * Pow2(k - 1)

Half == Pow2(16)

Byte == Pow2(8)

RECURSIVE XorBits(_, _, _)
\* a ^ b on numbers of w bits
XorBits(a, b, w) ==
    IF w = 0 THEN 0
    ELSE ((a + b) % 2) + 2 * XorBits(a \div 2, b \div 2, w - 1)

RECURSIVE OrBits(_, _, _)
\* a | b on numbers of w bits
OrBits(a, b, w) ==
    IF w = 0 THEN 0
    ELSE (IF a % 2 = 1 \/ b % 2 = 1 THEN 1 ELSE 0) + 2 * OrBits(a \div 2, b \div 2, w - 1)

\* a ^ b
Xor32(a, b) == <<XorBits(a[1], b[1], 16), XorBits(a[2], b[2], 16)>>

\* n | a, for a literal n below 2^16
OrLow(n, a) == <<a[1], OrBits(n, a[2], 16)>>

\* a >>> k, 0 < k < 16
ShiftRight(a, k) ==
    <<a[1] \div Pow2(k), (a[1] % Pow2(k)) * Pow2(16 - k) + a[2] \div Pow2(k)>>

\* (a + b) | 0
Add32(a, b) == <<(a[1] + b[1] + (a[2] + b[2]) \div Half) % Half, (a[2] + b[2]) % Half>>

\* The low half of the product of two halves.
MulLow(a, b) == ((((a * (b \div Byte)) % Byte) * Byte) + ((a * (b % Byte)) % Half)) % Half

\* The product of two halves, shifted right by 16, modulo 2^16.
MulHigh(a, b) ==
    ((a * (b \div Byte)) \div Byte
       + (((a * (b \div Byte)) % Byte) * Byte + a * (b % Byte)) \div Half) % Half

\* Math.imul(a, b)
Imul(a, b) ==
    <<(MulLow(a[1], b[2]) + MulLow(a[2], b[1]) + MulHigh(a[2], b[2])) % Half,
      MulLow(a[2], b[2])>>

\* 0x6d2b79f5
Increment == <<27947, 31221>>

\* t = Math.imul(seed ^ (seed >>> 15), 1 | seed)
FirstMix(seed) == Imul(Xor32(seed, ShiftRight(seed, 15)), OrLow(1, seed))

\* t = Math.imul(t ^ (t >>> 7), 61 | t) ^ t
SecondMix(t) == Xor32(Imul(Xor32(t, ShiftRight(t, 7)), OrLow(61, t)), t)

\* t ^ (t >>> 14)
LastMix(t) == Xor32(t, ShiftRight(t, 14))

\* The number a word stands for when it is read as a signed 32-bit
\* integer, as the result of ^ is: <<h, low>> for h * 2^16 + low.
Signed(w) == <<IF w[1] >= Half \div 2 THEN w[1] - Half ELSE w[1], w[2]>>

\* w >>> 0: the number a word stands for when it is read unsigned.
Unsigned(w) == <<w[1], w[2]>>

\* One call of the generator on the seed it has advanced to: the number
\* returned, in units of 2^-32.
Output(seed) == Unsigned(LastMix(SecondMix(FirstMix(seed))))

\* Math.trunc(n / d)
Trunc(n, d) == IF n >= 0 THEN n \div d ELSE -((-n) \div d)

\* The word of an integer: its value modulo 2^32.
WordOf(n) == <<(n \div Half) % Half, n % Half>>

\* (s * 2 ** 32) >>> 0 for the number s = n / 2^k, given as <<n, k>>
ToSeed(s) ==
    IF s[2] <= 16 THEN <<(s[1] * Pow2(16 - s[2])) % Half, 0>>
    ELSE IF s[2] <= 32 THEN WordOf(s[1] * Pow2(32 - s[2]))
    ELSE WordOf(Trunc(s[1], Pow2(s[2] - 32)))

\* The seed after i calls of the generator: i times
\* seed = (seed + 0x6d2b79f5) | 0.
SeedAfter(seed, i) == Add32(seed, Imul(WordOf(i), Increment))

\* The first k numbers of the generator made with `seed`.
DrawsFrom(seed, k) == [i \in 1..k |-> Output(SeedAfter(seed, i))]

\* params.restarts || 10
DefaultRestarts == 10

\* parameters.maxIterations || 500
DefaultIterations == 500

\* A parameters object: a record of its fields, 0 for a count that is not
\* there, NoSeed for a seed that is not there; `passed` tells whether the
\* caller passed an object at all.
NoSeed == <<>>

Restarts(p) == IF p.restarts = 0 THEN DefaultRestarts ELSE p.restarts

\* params.seed ?? Math.random(): Math.random is called only when there is
\* no seed.
SeedOrRandom(p, random) == IF p.seed = NoSeed THEN random ELSE p.seed

\* What conjugateGradient returns is a function of the initial vector it is
\* given: here of one bit of it, the parity of the high half of its first
\* coordinate.
Digest(draws, i, n) == draws[(i - 1) * 2 * n + 1][1] % 2

\* The restart kept as best: the first of the lowest fx.
BestRestart(draws, restarts, n, cg) ==
    CHOOSE i \in 1..restarts :
        /\ \A j \in 1..restarts : cg[Digest(draws, i, n)].fx <= cg[Digest(draws, j, n)].fx
        /\ \A j \in 1..(i - 1) : cg[Digest(draws, j, n)].fx > cg[Digest(draws, i, n)].fx

\* The positions constrainedMDSLayout keeps, from the numbers drawn.
ShapeFrom(draws, restarts, n, cg) ==
    cg[Digest(draws, BestRestart(draws, restarts, n, cg), n)].shape

\* The numbers constrainedMDSLayout draws: 2 for every row, in every
\* restart, from a generator made for this call.
MdsDraws(as, p, random) ==
    DrawsFrom(ToSeed(SeedOrRandom(p, random)), Restarts(p) * 2 * Len(SingleSetAreas(as)))

\* constrainedMDSLayout(areas, params), conjugateGradient being the
\* function cg.
SeededMdsFrom(as, p, draws, cg) ==
    IF Len(SingleSetAreas(as)) = 0 THEN ConstrainedMDSLayout(as, cg[0].shape)
    ELSE ConstrainedMDSLayout(as, ShapeFrom(draws, Restarts(p), Len(SingleSetAreas(as)), cg))

SeededMds(as, p, random, cg) == SeededMdsFrom(as, p, MdsDraws(as, p, random), cg)

\* parameters = parameters ?? {}
ParamsOrEmpty(p) ==
    IF p.passed THEN p
    ELSE [passed |-> FALSE, maxIterations |-> 0, seed |-> NoSeed, restarts |-> 0,
          layout |-> "undefined"]

\* The first lines of venn: the defaults written into the parameters
\* object.
WithDefaults(p, random) ==
    [p EXCEPT !.maxIterations = IF p.maxIterations = 0
                                THEN DefaultIterations ELSE p.maxIterations,
              !.seed = SeedOrRandom(p, random)]

\* venn from the parameters with their defaults on.
SeededVennFrom(as, p, cg, nm) ==
    IF p.layout = "MDS"
    THEN Refine(SeededMds(AddMissingAreas(as), p, p.seed, cg), nm)
    ELSE Venn(as, p.layout, cg[0].shape, nm)

\* venn(areas, parameters)
SeededVenn(as, p, random, cg, nm) ==
    SeededVennFrom(as, WithDefaults(ParamsOrEmpty(p), random), cg, nm)

\* The parameters object of the caller after venn: it is the object venn
\* wrote its defaults into, when there is one.
ParamsAfterVenn(p, random) ==
    IF p.passed THEN WithDefaults(p, random) ELSE p

-----------------------------------------------------------------------------
(* Specification of two calls with the same arguments: of venn, and of    *)
(* constrainedMDSLayout                                                   *)

MaxSeedRestarts == 2

SeedAreas ==
    {<<MkArea(<<"a">>, 16), MkArea(<<"b">>, 16), MkArea(<<"a", "b">>, 4)>>,
     <<MkArea(<<"a">>, 16), MkArea(<<"b">>, 4)>>}

\* Seeds, <<n, k>> for n / 2^k: 0, 1/4, 3, -1/4, 5 / 2^18 and 7 / 2^33.
Seeds == {<<0, 0>>, <<1, 2>>, <<3, 0>>, <<-1, 2>>, <<5, 18>>, <<7, 33>>}

\* What Math.random returns: 1/8 or 5/8.
Randoms == {<<1, 3>>, <<5, 3>>}

SeedParams ==
    [passed : {TRUE}, maxIterations : {0}, seed : Seeds \cup {NoSeed},
     restarts : {0} \cup {r \in {1, 2} : r <= MaxSeedRestarts},
     layout : {"MDS", "greedy"}]

\* No parameters object.
NoParams ==
    [passed |-> FALSE, maxIterations |-> 0, seed |-> NoSeed, restarts |-> 0,
     layout |-> "undefined"]

\* The functions conjugateGradient may be.
CgOutcomes == {[shape |-> [kind |-> "line", step |-> 6], fx |-> 2],
               [shape |-> [kind |-> "grid", step |-> 8], fx |-> 1]}

InitSeed ==
    /\ pc = "start"
    /\ areas \in SeedAreas
    /\ completed = <<>>
    /\ circles = <<>>
    /\ lossOut = 0
    /\ heap = <<>>
    /\ \E api \in {"venn", "constrainedMDSLayout"}, p \in SeedParams \cup {NoParams},
          cg \in [0..1 -> CgOutcomes], nm \in Refinements :
          /\ api = "constrainedMDSLayout" => p.passed /\ p.layout = "MDS"
          /\ call = [fn |-> api, params |-> p, params0 |-> p, areas0 |-> areas,
                     cg |-> cg, nm |-> nm]
    /\ result = NoResult

\* One run of the function called: what it returns, the numbers its
\* generator gave, the seed it used and whether it called Math.random.
RunOf(api, as, p, random, cg, nm) ==
    [ret |-> IF api = "venn" THEN SeededVenn(as, p, random, cg, nm)
             ELSE SeededMds(as, p, random, cg),
     draws |-> IF api = "venn"
               THEN IF ParamsOrEmpty(p).layout = "MDS"
                    THEN MdsDraws(AddMissingAreas(as), WithDefaults(ParamsOrEmpty(p), random),
                                  random)
                    ELSE <<>>
               ELSE MdsDraws(as, p, random),
     seed |-> SeedOrRandom(ParamsOrEmpty(p), random),
     drew |-> ParamsOrEmpty(p).seed = NoSeed]

\* The first call.
CallFirst ==
    /\ pc = "start"
    /\ \E random \in Randoms :
         /\ result' = [status |-> "ok",
                       first |-> RunOf(call.fn, areas, call.params, random, call.cg, call.nm)]
         /\ call' = [call EXCEPT !.params = IF call.fn = "venn"
                                            THEN ParamsAfterVenn(call.params, random)
                                            ELSE call.params]
    /\ pc' = "ranOnce"
    /\ UNCHANGED <<areas, completed, circles, lossOut, heap>>

\* The second call, with the arguments of the first.
CallAgain ==
    /\ pc = "ranOnce"
    /\ \E random \in Randoms :
         /\ result' = [status |-> "ok", first |-> result.first,
                       second |-> RunOf(call.fn, areas, call.params, random, call.cg, call.nm)]
         /\ call' = [call EXCEPT !.params = IF call.fn = "venn"
                                            THEN ParamsAfterVenn(call.params, random)
                                            ELSE call.params]
    /\ pc' = "ranTwice"
    /\ UNCHANGED <<areas, completed, circles, lossOut, heap>>

NextSeed ==
    \/ CallFirst
    \/ CallAgain

SpecSeed == InitSeed /\ [][NextSeed]_vars

\* The number drawn lies in [0, 1): in units of 2^-32, from 0 up to 2^32 - 1.
InUnitInterval(d) == 0 <= d[1] /\ d[1] < Half /\ 0 <= d[2] /\ d[2] < Half

\* C19: two runs of constrainedMDSLayout, or of venn with the MDS layout,
\* on the same areas with the same explicit seed return the same
\* CircleRecord, and every number the seeded generator gives lies in [0, 1).
C19_SeedDeterminism ==
    /\ (pc = "ranTwice" /\ call.params0.seed # NoSeed /\ call.params0.layout = "MDS") =>
          result.second.ret = result.first.ret
    /\ pc \in {"ranOnce", "ranTwice"} =>
          \A i \in DOMAIN result.first.draws : InUnitInterval(result.first.draws[i])
    /\ pc = "ranTwice" =>
          \A i \in DOMAIN result.second.draws : InUnitInterval(result.second.draws[i])

\* constrainedMDSLayout has run twice with an explicit seed, for ten
\* restarts of two rows, and has returned a layout; some number it drew had
\* the top bit set.
C19_Witness ==
    /\ pc = "ranTwice"
    /\ call.fn = "constrainedMDSLayout"
    /\ call.params0.seed = <<1, 2>>
    /\ result.first.ret.status = "ok"
    /\ result.second.ret.status = "ok"
    /\ Len(result.second.draws) = 40
    /\ \E i \in DOMAIN result.second.draws : result.second.draws[i][1] >= Half \div 2

\* C20: a call of venn leaves the area list and the parameters object of
\* the caller as they were, and a second call with the same arguments, when
\* no seed was supplied, draws a seed of its own.
C20_NoStateCrossesCalls ==
    (pc \in {"ranOnce", "ranTwice"} /\ call.fn = "venn") =>
        /\ areas = call.areas0
        /\ call.params = call.params0
        /\ (pc = "ranTwice" /\ call.params0.seed = NoSeed) =>
              result.second.drew

-----------------------------------------------------------------------------
(* getDistanceMatrices and constrainedMDSGradient (layout.ts).  A number  *)
(* is a record: `nan` tells whether it is NaN, `v` is its value otherwise. *)

Num(v) == [nan |-> FALSE, v |-> v]

NaN == [nan |-> TRUE, v |-> 0]

\* The 2-way Areas that write the cell (i, j) of the matrices: both sets
\* have a row, and the rows are i and j.
WritesCell(sets, pair, i, j) ==
    /\ RowOf(sets, pair.sets[1]) # 0
    /\ RowOf(sets, pair.sets[2]) # 0
    /\ {RowOf(sets, pair.sets[1]), RowOf(sets, pair.sets[2])} = {i, j}

\* The last 2-way Area that writes the cell (i, j), 0 when there is none.
LastWriter(pairs, sets, i, j) ==
    IF \E k \in DOMAIN pairs : WritesCell(sets, pairs[k], i, j)
    THEN CHOOSE k \in DOMAIN pairs :
            /\ WritesCell(sets, pairs[k], i, j)
            /\ \A m \in DOMAIN pairs : WritesCell(sets, pairs[m], i, j) => m <= k
    ELSE 0

\* distances[i][j]
DistanceCell(pairs, sets, i, j) ==
    IF LastWriter(pairs, sets, i, j) = 0 THEN 0
    ELSE PairDistance(sets, i, j, pairs[LastWriter(pairs, sets, i, j)].size)

\* The constraint of a 2-way Area of `size` between sets of sizes s1 and s2:
\* 1 for a subset, -1 for disjoint sets, 0 otherwise.
ConstraintOf(size, s1, s2) ==
    IF size >= Min(s1, s2) THEN 1
    ELSE IF size <= 0 THEN -1
    ELSE 0

\* constraints[i][j]
ConstraintCell(pairs, sets, i, j) ==
    IF LastWriter(pairs, sets, i, j) = 0 THEN 0
    ELSE ConstraintOf(pairs[LastWriter(pairs, sets, i, j)].size, sets[i].size, sets[j].size)

\* norm2(distances.map(norm2)) / distances.length is 0: every cell is 0.
ZeroNorm(pairs, sets) ==
    \A i, j \in DOMAIN sets : DistanceCell(pairs, sets, i, j) = 0

\* distances[i][j] after the division by the norm, lengths being counted in
\* units of the norm: NaN (0 / 0) when the norm is 0.
NormedCell(pairs, sets, i, j) ==
    IF ZeroNorm(pairs, sets) THEN NaN ELSE Num(DistanceCell(pairs, sets, i, j))

\* (xj - xi) * (xj - xi) + (yj - yi) * (yj - yi)
SquaredDistance(x, i, j) ==
    (x[2 * j - 1] - x[2 * i - 1]) * (x[2 * j - 1] - x[2 * i - 1])
      + (x[2 * j] - x[2 * i]) * (x[2 * j] - x[2 * i])

\* delta = squaredDistance - dij * dij
Delta(sq, dij) == IF dij.nan THEN NaN ELSE Num(sq - dij.v * dij.v)

\* (constraint > 0 && distance <= dij) || (constraint < 0 && distance >= dij),
\* distance being the square root of sq: a comparison with NaN is false.
StrictlyMasked(constraint, sq, dij) ==
    /\ ~dij.nan
    /\ \/ constraint > 0 /\ dij.v >= 0 /\ sq < dij.v * dij.v
       \/ constraint < 0 /\ (dij.v < 0 \/ sq > dij.v * dij.v)

Masked(constraint, sq, dij) ==
    /\ ~dij.nan
    /\ \/ constraint > 0 /\ dij.v >= 0 /\ sq <= dij.v * dij.v
       \/ constraint < 0 /\ (dij.v < 0 \/ sq >= dij.v * dij.v)

\* a + k * delta * b
PlusTimes(a, k, delta, b) ==
    IF a.nan \/ delta.nan THEN NaN ELSE Num(a.v + k * delta.v * b)

\* The body of the inner loop for the pair (i, j), when it is not skipped.
AddPair(st, x, i, j, delta) ==
    [loss |-> PlusTimes(st.loss, 2, delta, IF delta.nan THEN 0 ELSE delta.v),
     fxprime |-> [k \in DOMAIN st.fxprime |->
        IF k = 2 * i - 1 THEN PlusTimes(st.fxprime[k], 4, delta, x[2 * i - 1] - x[2 * j - 1])
        ELSE IF k = 2 * i THEN PlusTimes(st.fxprime[k], 4, delta, x[2 * i] - x[2 * j])
        ELSE IF k = 2 * j - 1 THEN PlusTimes(st.fxprime[k], 4, delta, x[2 * j - 1] - x[2 * i - 1])
        ELSE IF k = 2 * j THEN PlusTimes(st.fxprime[k], 4, delta, x[2 * j] - x[2 * i])
        ELSE st.fxprime[k]]]

\* One pass of the inner loop, for the pair (i, j).
GradientPair(st, x, i, j, dij, constraint) ==
    IF Masked(constraint, SquaredDistance(x, i, j), dij) THEN st
    ELSE AddPair(st, x, i, j, Delta(SquaredDistance(x, i, j), dij))

\* The pairs in the order of the loops: i ascending, then j > i ascending.
PairsInOrder(n) ==
    [k \in 1..((n * (n - 1)) \div 2) |->
        CHOOSE p \in {<<i, j>> : i \in 1..n, j \in 1..n} :
            /\ p[1] < p[2]
            /\ Cardinality({q \in {<<i, j>> : i \in 1..n, j \in 1..n} :
                   q[1] < q[2] /\ (q[1] < p[1] \/ (q[1] = p[1] /\ q[2] < p[2]))}) = k - 1]

RECURSIVE GradientFrom(_, _, _, _, _, _, _)
\* The loops of constrainedMDSGradient from the k-th pair on: `steps` holds,
\* for every pair passed, loss and fxprime before and after it.
GradientFrom(st, x, pairs, sets, order, k, steps) ==
    IF k > Len(order) THEN [loss |-> st.loss, fxprime |-> st.fxprime, steps |-> steps]
    ELSE GradientFrom(
            GradientPair(st, x, order[k][1], order[k][2],
                         NormedCell(pairs, sets, order[k][1], order[k][2]),
                         ConstraintCell(pairs, sets, order[k][1], order[k][2])),
            x, pairs, sets, order, k + 1,
            Append(steps,
                   [i |-> order[k][1], j |-> order[k][2], before |-> st,
                    after |-> GradientPair(st, x, order[k][1], order[k][2],
                                  NormedCell(pairs, sets, order[k][1], order[k][2]),
                                  ConstraintCell(pairs, sets, order[k][1], order[k][2]))]))

\* constrainedMDSGradient(x, fxprime, distances, constraints), the matrices
\* being those constrainedMDSLayout makes of the areas.
ConstrainedMDSGradient(x, as) ==
    GradientFrom([loss |-> Num(0), fxprime |-> [k \in DOMAIN x |-> Num(0)]],
                 x, TwoSetAreas(as), SingleSetAreas(as),
                 PairsInOrder(Len(SingleSetAreas(as))), 1, <<>>)

-----------------------------------------------------------------------------
(* Specification of constrainedMDSGradient on the matrices of             *)
(* constrainedMDSLayout                                                   *)

MaxRows == 3

\* The areas drawn: a subset, disjoint sets, touching targets, a partial
\* overlap, two sets that coincide, three sets, and sets without overlaps.
GradientAreas ==
    {as \in {<<MkArea(<<"a">>, 16), MkArea(<<"b">>, 4), MkArea(<<"a", "b">>, 4)>>,
             <<MkArea(<<"a">>, 16), MkArea(<<"b">>, 4), MkArea(<<"a", "b">>, 0)>>,
             <<MkArea(<<"a">>, 4), MkArea(<<"b">>, 1), MkArea(<<"a", "b">>, 0)>>,
             <<MkArea(<<"a">>, 16), MkArea(<<"b">>, 16), MkArea(<<"a", "b">>, 4)>>,
             <<MkArea(<<"a">>, 16), MkArea(<<"b">>, 16), MkArea(<<"a", "b">>, 16)>>,
             <<MkArea(<<"a">>, 16), MkArea(<<"b">>, 4), MkArea(<<"c">>, 1),
               MkArea(<<"a", "b">>, 4), MkArea(<<"b", "c">>, 0)>>,
             <<MkArea(<<"a">>, 16), MkArea(<<"b">>, 4)>>} :
        Len(SingleSetAreas(as)) <= MaxRows}

\* The coordinates conjugateGradient asks the gradient at.
GradientCoords == {0, 2, 3}

InitGradient ==
    /\ pc = "start"
    /\ areas \in GradientAreas
    /\ completed = <<>>
    /\ circles = <<>>
    /\ lossOut = 0
    /\ heap = <<>>
    /\ call = NoCall
    /\ result = NoResult

\* constrainedMDSGradient(x, fxprime, distances, constraints)
CallConstrainedMDSGradient ==
    /\ pc = "start"
    /\ \E x \in [1..(2 * Len(SingleSetAreas(areas))) -> GradientCoords] :
         \E r \in {ConstrainedMDSGradient(x, areas)} :
            /\ call' = [fn |-> "constrainedMDSGradient", x |-> x]
            /\ result' = [status |-> "ok", loss |-> r.loss, fxprime |-> r.fxprime,
                          steps |-> r.steps]
    /\ pc' = "graded"
    /\ UNCHANGED <<areas, completed, circles, lossOut, heap>>

NextGradient == CallConstrainedMDSGradient

SpecGradient == InitGradient /\ [][NextGradient]_vars

\* What a pass added to a number: NaN when either value is NaN.
AddedTo(before, after) ==
    IF before.nan \/ after.nan THEN NaN ELSE Num(after.v - before.v)

\* The pair of a step satisfies its constraint: a subset whose achieved
\* distance is at most the target, or disjoint sets whose achieved distance
\* is at least the target.
Satisfied(step) ==
    LET dij == NormedCell(TwoSetAreas(areas), SingleSetAreas(areas), step.i, step.j)
        c == ConstraintCell(TwoSetAreas(areas), SingleSetAreas(areas), step.i, step.j)
        sq == SquaredDistance(call.x, step.i, step.j)
    IN  /\ ~dij.nan
        /\ \/ c = 1 /\ sq <= dij.v * dij.v
           \/ c = -1 /\ sq >= dij.v * dij.v

\* The pass added a non-negative term to the loss, terms to the components
\* of i that are the opposite of those of j, and nothing to the others.
AddsOpposite(step) ==
    /\ ~AddedTo(step.before.loss, step.after.loss).nan
    /\ AddedTo(step.before.loss, step.after.loss).v >= 0
    /\ \A k \in DOMAIN step.before.fxprime :
          ~AddedTo(step.before.fxprime[k], step.after.fxprime[k]).nan
    /\ \A m \in {0, 1} :
          AddedTo(step.before.fxprime[2 * step.i - m], step.after.fxprime[2 * step.i - m]).v
            = -AddedTo(step.before.fxprime[2 * step.j - m], step.after.fxprime[2 * step.j - m]).v
    /\ \A k \in DOMAIN step.before.fxprime :
          k \notin {2 * step.i - 1, 2 * step.i, 2 * step.j - 1, 2 * step.j} =>
              step.after.fxprime[k] = step.before.fxprime[k]

\* C21: in constrainedMDSGradient a pair whose constraint is satisfied adds
\* nothing to the loss nor to any component of the gradient; every other
\* pair adds a non-negative term to the loss and equal and opposite terms to
\* the gradient components of its two rows.
C21_GradientMask ==
    pc = "graded" =>
        \A k \in DOMAIN result.steps :
            IF Satisfied(result.steps[k])
            THEN result.steps[k].after = result.steps[k].before
            ELSE AddsOpposite(result.steps[k])

-----------------------------------------------------------------------------
(* Specification of greedyLayout, one placement at a time                 *)

MaxGreedySets == 3

\* The single-set Areas drawn: a and b, with or without c or a set whose id
\* is the empty string.
GreedySets ==
    {s \in {<<MkArea(<<"a">>, 16), MkArea(<<"b">>, 16)>>,
            <<MkArea(<<"a">>, 16), MkArea(<<"b">>, 4)>>,
            <<MkArea(<<"a">>, 4), MkArea(<<"b">>, 16), MkArea(<<"c">>, 4)>>,
            <<MkArea(<<"a">>, 16), MkArea(<<"b">>, 4), MkArea(<<"c">>, 16)>>,
            <<MkArea(<<"a">>, 16), MkArea(<<"">>, 4)>>,
            <<MkArea(<<"a">>, 16), MkArea(<<"b">>, 0)>>} :
        Len(s) <= MaxGreedySets}

\* The sizes of the 2-way Areas drawn: disjoint, partial, and the whole of
\* the smaller set.
GreedyOverlapSizes == {0, 1, 4}

\* Every pair of the sets gets a 2-way Area, as after addMissingAreas; one
\* of them may carry a weight.
GreedyPairsOf(s) ==
    {p \in (DOMAIN s) \X (DOMAIN s) : p[1] < p[2]}

GreedyInputs ==
    UNION {{s \o [k \in 1..Len(order) |->
                    IF weighted /\ k = 1
                    THEN MkWeighted(<<s[order[k][1]].sets[1], s[order[k][2]].sets[1]>>,
                                    sizes[order[k]], 3)
                    ELSE MkArea(<<s[order[k][1]].sets[1], s[order[k][2]].sets[1]>>,
                                sizes[order[k]])] :
              sizes \in [GreedyPairsOf(s) -> GreedyOverlapSizes], weighted \in BOOLEAN,
              order \in {PairsInOrder(Len(s))}} :
           s \in GreedySets}

InitGreedy ==
    /\ pc = "start"
    /\ areas \in GreedyInputs
    /\ completed = <<>>
    /\ circles = <<>>
    /\ lossOut = 0
    /\ heap = <<>>
    /\ call = NoCall
    /\ result = NoResult

\* greedyLayout up to the loop that places the sets: the circles are
\* defined, the overlaps collected, the sets ordered and the first of them
\* put at (0, 0).
StartGreedy ==
    /\ pc = "start"
    /\ \E rec \in {DefineCircles(areas, 1, <<>>)} :
         \E ov \in {CollectOverlaps(rec, TwoSetAreas(areas), 1, [k \in DOMAIN rec |-> <<>>])} :
            IF ov.status # "ok"
            THEN /\ pc' = "threw"
                 /\ circles' = rec
                 /\ call' = [fn |-> "greedyLayout", defined |-> rec]
                 /\ result' = [status |-> "throw", error |-> ov.error]
            ELSE \E most \in {MostOverlapped(rec, ov.lists)} :
                 /\ pc' = "placing"
                 /\ circles' = PositionSet(rec, most[1].set, 0, 0)
                 /\ call' = [fn |-> "greedyLayout", defined |-> rec, lists |-> ov.lists,
                             most |-> most, i |-> 2, positioned |-> {most[1].set},
                             placed |-> <<most[1].set>>, before |-> rec, trials |-> <<>>]
                 /\ result' = [status |-> "running", error |-> ""]
    /\ UNCHANGED <<areas, completed, lossOut, heap>>

\* The layouts loss is evaluated on while the set `index` is tried at each
\* of its candidate points.
TrialsOf(rec, index, points) ==
    [j \in DOMAIN points |-> PositionSet(rec, index, points[j].x, points[j].y)]

\* The placement stops with a throw.
GreedyThrows(error) ==
    /\ pc' = "threw"
    /\ result' = [status |-> "throw", error |-> error]
    /\ UNCHANGED <<circles, call>>

\* One pass of the loop that places the sets: mostOverlapped[i] is tried at
\* its candidate points and put at the best of them.
PlaceNext ==
    /\ pc = "placing"
    /\ call.i <= Len(call.most)
    /\ IF ~Truthy(call.most[call.i].set) THEN GreedyThrows(MissingOverlap)
       ELSE \E overlap \in {PositionedOverlaps(
                               call.lists[Lookup(circles, call.most[call.i].set)],
                               call.positioned)} :
            IF overlap = <<>> THEN GreedyThrows(MissingOverlap)
            ELSE \E ds \in {OverlapDistances(
                               circles, circles[Lookup(circles, call.most[call.i].set)],
                               overlap)} :
                 IF \E j \in DOMAIN ds : ds[j] < 0 THEN GreedyThrows(BisectSigns)
                 ELSE \E points \in {PointsFrom(circles, overlap, ds, 1)} :
                      /\ circles' = PlaceBest(circles, call.most[call.i].set, points,
                                              TwoSetAreas(areas))
                      /\ call' = [call EXCEPT
                                    !.i = @ + 1,
                                    !.positioned = @ \cup {call.most[call.i].set},
                                    !.placed = Append(@, call.most[call.i].set),
                                    !.before = circles,
                                    !.trials = TrialsOf(circles, call.most[call.i].set, points)]
                      /\ pc' = "placing"
                      /\ UNCHANGED result
    /\ UNCHANGED <<areas, completed, lossOut, heap>>

\* return circles
ReturnGreedy ==
    /\ pc = "placing"
    /\ call.i > Len(call.most)
    /\ pc' = "returned"
    /\ result' = [status |-> "ok", error |-> ""]
    /\ UNCHANGED <<areas, completed, circles, lossOut, heap, call>>

NextGreedy ==
    \/ StartGreedy
    \/ PlaceNext
    \/ ReturnGreedy

SpecGreedy == InitGreedy /\ [][NextGreedy]_vars

\* The total weighted overlap of a set: the sum of size * weight over its
\* overlap list.
TotalOf(set) == OverlapTotal(call.lists[Lookup(circles, set)], 1)

\* Every circle but that of `index` is where it was in `before`, and every
\* circle has the radius it had.
OnlyMoves(before, after, index) ==
    /\ DOMAIN after = DOMAIN before
    /\ \A k \in DOMAIN before :
          /\ after[k].radius = before[k].radius
          /\ after[k].setid = before[k].setid
          /\ after[k].setid # index => after[k].x = before[k].x /\ after[k].y = before[k].y

\* C22: greedyLayout places the sets in descending order of their total
\* weighted overlap; the first set is put at (0, 0) and is there in the
\* layout returned; placing a later set, the trials of its candidate points
\* included, moves no set already positioned and changes no radius.
C22_GreedyOrderAndFrame ==
    pc \in {"placing", "returned"} =>
        /\ \A k \in 1..(Len(call.placed) - 1) :
              TotalOf(call.placed[k]) >= TotalOf(call.placed[k + 1])
        /\ \A k \in DOMAIN call.placed : call.placed[k] = call.most[k].set
        /\ circles[Lookup(circles, call.placed[1])].x = 0
        /\ circles[Lookup(circles, call.placed[1])].y = 0
        /\ Len(call.placed) > 1 =>
              /\ OnlyMoves(call.before, circles, call.placed[Len(call.placed)])
              /\ \A j \in DOMAIN call.trials :
                    OnlyMoves(call.before, call.trials[j], call.placed[Len(call.placed)])
        /\ \A k \in DOMAIN circles : circles[k].radius = call.defined[k].radius

\* greedyLayout has returned a layout of three sets whose totals differ: the
\* third set was tried at several points and put away from the origin.
C22_Witness ==
    /\ pc = "returned"
    /\ Len(call.placed) = 3
    /\ TotalOf(call.placed[1]) > TotalOf(call.placed[3])
    /\ call.placed[1] # circles[1].setid
    /\ Len(call.trials) > 4
    /\ \E k \in DOMAIN circles : circles[k].x # 0 \/ circles[k].y # 0

====
